---------------------------- MODULE Spec2Model ----------------------------
(***************************************************************************)
(* The content representation engine of praveentn/repr:                    *)
(*   core/representations.py      RepresentationEngine (catalog, dispatch,  *)
(*                                 one handler per catalog id)              *)
(*   representations/base.py       BaseRepresentation (validation, error    *)
(*                                 result, text toolkit)                    *)
(*   representations/*.py          the seven mode classes                   *)
(* Texts are TLA+ strings, i.e. sequences of characters; the toolkit below  *)
(* works on them character by character, as str/re do in the source.        *)
(***************************************************************************)
EXTENDS Integers, Sequences, FiniteSets, TLC

VARIABLES
    available_modes,   \* RepresentationEngine.available_modes: id -> info
    registry,          \* the mode instances' static metadata: class -> info
    now_year,          \* datetime.now().year of the host
    hash_seed,         \* the process's string hash seed (set iteration order)
    calls,             \* call slot -> the call's arguments, position and outcome
    frames             \* frame -> the local variables of the call running in it

vars == <<available_modes, registry, now_year, hash_seed, calls, frames>>

(***************************************************************************)
(* Characters and strings                                                  *)
(***************************************************************************)
CharAt(s, i) == SubSeq(s, i, i)

Digits == {"0", "1", "2", "3", "4", "5", "6", "7", "8", "9"}

UpperLetters ==
    {"A", "B", "C", "D", "E", "F", "G", "H", "I", "J", "K", "L", "M",
     "N", "O", "P", "Q", "R", "S", "T", "U", "V", "W", "X", "Y", "Z"}

LowerLetters ==
    {"a", "b", "c", "d", "e", "f", "g", "h", "i", "j", "k", "l", "m",
     "n", "o", "p", "q", "r", "s", "t", "u", "v", "w", "x", "y", "z"}

IsSpaceChar(c) == c \in {" ", "\n", "\t", "\r"}

\* the characters of s
Range0(s) == {CharAt(s, j) : j \in 1..Len(s)}
IsDigit(c) == c \in Digits
IsUpper(c) == c \in UpperLetters
IsLower(c) == c \in LowerLetters
IsAlpha(c) == IsUpper(c) \/ IsLower(c)
IsWordChar(c) == IsAlpha(c) \/ IsDigit(c) \/ c = "_"

ToLowerChar(c) ==
    CASE c = "A" -> "a" [] c = "B" -> "b" [] c = "C" -> "c" [] c = "D" -> "d"
      [] c = "E" -> "e" [] c = "F" -> "f" [] c = "G" -> "g" [] c = "H" -> "h"
      [] c = "I" -> "i" [] c = "J" -> "j" [] c = "K" -> "k" [] c = "L" -> "l"
      [] c = "M" -> "m" [] c = "N" -> "n" [] c = "O" -> "o" [] c = "P" -> "p"
      [] c = "Q" -> "q" [] c = "R" -> "r" [] c = "S" -> "s" [] c = "T" -> "t"
      [] c = "U" -> "u" [] c = "V" -> "v" [] c = "W" -> "w" [] c = "X" -> "x"
      [] c = "Y" -> "y" [] c = "Z" -> "z" [] OTHER -> c

RECURSIVE Lower(_)
\* str.lower(), by halves
Lower(s) ==
    IF Len(s) = 0 THEN ""
    ELSE IF Len(s) = 1 THEN ToLowerChar(s)
    ELSE Lower(SubSeq(s, 1, Len(s) \div 2)) \o Lower(SubSeq(s, Len(s) \div 2 + 1, Len(s)))

\* the least element of a non-empty set of integers
Least(S) == CHOOSE i \in S : \A j \in S : i <= j
Greatest(S) == CHOOSE i \in S : \A j \in S : i >= j

\* s[a:] of Python, 0-based a
From(s, a) == SubSeq(s, a + 1, Len(s))

\* s[:b] of Python
Upto(s, b) == SubSeq(s, 1, IF b < Len(s) THEN b ELSE Len(s))

\* s.startswith(k) at 1-based position i
MatchAt(s, i, k) == i >= 1 /\ i + Len(k) - 1 <= Len(s) /\ SubSeq(s, i, i + Len(k) - 1) = k

StartsWith(s, k) == MatchAt(s, 1, k)
EndsWith(s, k) == Len(k) <= Len(s) /\ MatchAt(s, Len(s) - Len(k) + 1, k)

\* k in s
Contains(s, k) == \E i \in 1..(Len(s) - Len(k) + 1) : MatchAt(s, i, k)

\* the 1-based positions from i on where k occurs
Occurrences(s, k, i) == {j \in i..(Len(s) - Len(k) + 1) : MatchAt(s, j, k)}

\* s.find(k): 0-based offset of the first occurrence, -1 when there is none
Find(s, k) ==
    LET occ == Occurrences(s, k, 1)
    IN  IF occ = {} THEN -1 ELSE Least(occ) - 1

RECURSIVE SplitFrom(_, _, _)
SplitFrom(s, sep, start) ==
    LET occ == Occurrences(s, sep, start)
    IN  IF occ = {} THEN <<SubSeq(s, start, Len(s))>>
        ELSE LET i == Least(occ)
             IN  <<SubSeq(s, start, i - 1)>> \o SplitFrom(s, sep, i + Len(sep))

\* s.split(sep): the pieces between the occurrences of sep, empty ones kept
Split(s, sep) == SplitFrom(s, sep, 1)

\* s.count(k), non-overlapping, k non-empty
Count(s, k) == Len(Split(s, k)) - 1

RECURSIVE JoinFrom(_, _, _)
JoinFrom(parts, sep, i) ==
    IF i > Len(parts) THEN ""
    ELSE IF i = Len(parts) THEN parts[i]
    ELSE parts[i] \o sep \o JoinFrom(parts, sep, i + 1)

\* sep.join(parts)
Join(parts, sep) == JoinFrom(parts, sep, 1)

\* s.replace(old, new)
Replace(s, old, new) == Join(Split(s, old), new)

\* the positions of the characters of s, from i on, that are / are not in cls
InClass(s, i, cls) == {j \in i..Len(s) : CharAt(s, j) \in cls}
NotInClass(s, i, cls) == {j \in i..Len(s) : CharAt(s, j) \notin cls}

\* the last index of the run of characters of class cls starting at i (i - 1: none)
RunEnd(s, i, cls) ==
    LET out == NotInClass(s, i, cls)
    IN  IF out = {} THEN Len(s) ELSE Least(out) - 1

SpaceChars == {" ", "\n", "\t", "\r"}

\* s.strip()
Strip(s) ==
    LET ink == NotInClass(s, 1, SpaceChars)
    IN  IF ink = {} THEN "" ELSE SubSeq(s, Least(ink), Greatest(ink))

RECURSIVE PiecesFrom(_, _, _)
\* the maximal runs of characters outside cls, from start on
PiecesFrom(s, cls, start) ==
    LET ink == NotInClass(s, start, cls)
    IN  IF ink = {} THEN <<>>
        ELSE LET a == Least(ink)
                 b == RunEnd(s, a, (Range0(s)) \ cls)
             IN  <<SubSeq(s, a, b)>> \o PiecesFrom(s, cls, b + 1)

\* s.split(): the maximal runs of non-whitespace
Words(s) == PiecesFrom(s, SpaceChars, 1)

Terminators == {".", "!", "?"}
IsTerminator(c) == c \in Terminators

RECURSIVE SplitRunsFrom(_, _)
SplitRunsFrom(s, start) ==
    LET t == InClass(s, start, Terminators)
    IN  IF t = {} THEN <<SubSeq(s, start, Len(s))>>
        ELSE LET i == Least(t)
                 j == RunEnd(s, i, Terminators)
             IN  <<SubSeq(s, start, i - 1)>> \o SplitRunsFrom(s, j + 1)

\* re.split(r'[.!?]+', s)
SplitSentences(s) == SplitRunsFrom(s, 1)

DigitStr(d) ==
    CASE d = 0 -> "0" [] d = 1 -> "1" [] d = 2 -> "2" [] d = 3 -> "3" [] d = 4 -> "4"
      [] d = 5 -> "5" [] d = 6 -> "6" [] d = 7 -> "7" [] d = 8 -> "8" [] d = 9 -> "9"

RECURSIVE NatStr(_)
NatStr(n) == IF n < 10 THEN DigitStr(n) ELSE NatStr(n \div 10) \o DigitStr(n % 10)

\* str(n) / f"{n}"
IntStr(n) == IF n < 0 THEN "-" \o NatStr(0 - n) ELSE NatStr(n)

DigitVal(c) ==
    CASE c = "0" -> 0 [] c = "1" -> 1 [] c = "2" -> 2 [] c = "3" -> 3 [] c = "4" -> 4
      [] c = "5" -> 5 [] c = "6" -> 6 [] c = "7" -> 7 [] c = "8" -> 8 [] c = "9" -> 9

RECURSIVE ParseNat(_)
\* int(s) for a string of digits
ParseNat(s) ==
    IF s = "" THEN 0
    ELSE 10 * ParseNat(SubSeq(s, 1, Len(s) - 1)) + DigitVal(CharAt(s, Len(s)))

\* [f(x) for x in seq if p(x)] helpers
RECURSIVE SelectSeqStripped(_, _)
SelectSeqStripped(parts, i) ==
    IF i > Len(parts) THEN <<>>
    ELSE (IF Strip(parts[i]) # "" THEN <<Strip(parts[i])>> ELSE <<>>)
         \o SelectSeqStripped(parts, i + 1)

Range(f) == {f[i] : i \in DOMAIN f}

Min(a, b) == IF a < b THEN a ELSE b
Max(a, b) == IF a > b THEN a ELSE b

(***************************************************************************)
(* Values: Python's None, dicts, call outcomes                              *)
(***************************************************************************)
\* an absent optional string (javascript_code = None)
NoneStr == "None"

\* an absent optional map (frontend_config = None)
NoneMap == [none |-> TRUE]

\* the empty dict
EmptyDict == [k \in {} |-> ""]

\* a content argument: a string, or None
Text(s) == [given |-> TRUE, text |-> s]
NoContent == [given |-> FALSE, text |-> ""]

\* a preferences argument: a dict, or None
Prefs(d) == [given |-> TRUE, dict |-> d]
NoPrefs == [given |-> FALSE, dict |-> EmptyDict]

\* user_preferences or {}
OrEmpty(p) == IF p.given THEN p.dict ELSE EmptyDict

\* d.get(key, default) on a dict of strings
DictGet(d, key, default) == IF key \in DOMAIN d THEN d[key] ELSE default

Returned(r) == [kind |-> "return", value |-> r]
Raised(e) == [kind |-> "raise", exc |-> e]

\* metadata.error is true
HasErrorFlag(r) == "error" \in DOMAIN r.metadata /\ r.metadata.error = TRUE

(***************************************************************************)
(* representations/base.py: BaseRepresentation                              *)
(***************************************************************************)
ModeClasses ==
    {"plain_text", "color_coded", "collapsible_concepts", "summary",
     "knowledge_graph", "timeline", "puzzle_based"}

get_description(cls) ==
    CASE cls = "plain_text" -> "Simple, clean text format"
      [] cls = "color_coded" ->
            "Color-tagged sections with legend (facts, assumptions, examples, warnings)"
      [] cls = "collapsible_concepts" ->
            "Nested, expandable concept trees for hierarchical learning"
      [] cls = "summary" -> "Concise key points and executive summary"
      [] cls = "knowledge_graph" ->
            "Interactive visual network of interconnected concepts"
      [] cls = "timeline" -> "Chronological evolution view with interactive timeline"
      [] cls = "puzzle_based" ->
            "Unlock information by solving mini challenges - game-based learning"

\* icons are written as their code points (two are stored mis-encoded in the
\* source files and are written as the bytes' Latin-1 reading)
get_icon(cls) ==
    CASE cls = "plain_text" -> "latin1(U+1F4DD)"
      [] cls = "color_coded" -> "U+1F3A8"
      [] cls = "collapsible_concepts" -> "U+1F9E9"
      [] cls = "summary" -> "U+1F4E6"
      [] cls = "knowledge_graph" -> "U+1F9E0"
      [] cls = "timeline" -> "U+23F3"
      [] cls = "puzzle_based" -> "latin1(U+1F9E9)"

get_category(cls) ==
    CASE cls = "plain_text" -> "basic"
      [] cls = "color_coded" -> "visual"
      [] cls = "collapsible_concepts" -> "interactive"
      [] cls = "summary" -> "basic"
      [] cls = "knowledge_graph" -> "visual"
      [] cls = "timeline" -> "temporal"
      [] cls = "puzzle_based" -> "interactive"

\* BaseRepresentation.__init__: the instance's static metadata
BaseInit(cls) ==
    [mode_name |-> cls, description |-> get_description(cls),
     icon |-> get_icon(cls), category |-> get_category(cls)]

MinContentLength == 10
PuzzleMinContentLength == 100

\* BaseRepresentation.validate_content
Base_validate_content(content) ==
    ~(~content.given \/ content.text = "" \/ Len(Strip(content.text)) < MinContentLength)

\* PuzzleBasedRepresentation.validate_content
Puzzle_validate_content(content) ==
    ~(~content.given \/ content.text = ""
        \/ Len(Strip(content.text)) < PuzzleMinContentLength)

\* a validation that accepts every text that is given
validate_given(cls, content) == content.given

validate_content(cls, content) ==
    IF cls = "puzzle_based" THEN Puzzle_validate_content(content)
    ELSE Base_validate_content(content)

\* BaseRepresentation.get_error_result
Base_get_error_result(self, error_message) ==
    [mode |-> self.mode_name,
     content |-> [error |-> TRUE, message |-> error_message,
                  fallback_content |->
                      "Unable to process content for this representation mode."],
     metadata |-> [error |-> TRUE, processing_time |-> 0],
     css_classes |-> <<"error-state">>,
     javascript_code |-> NoneStr,
     frontend_config |-> [show_error |-> TRUE]]

\* PuzzleBasedRepresentation.get_error_result
Puzzle_get_error_result(self, message) ==
    [mode |-> self.mode_name,
     content |-> [error |-> TRUE, message |-> message,
                  segments |-> <<[id |-> "error_segment",
                                  content |-> "<p class='text-red-600'>" \o message \o "</p>",
                                  challenge |-> [type |-> "text_input",
                                                 question |-> "What would you like to learn about?",
                                                 correct_answer |-> <<"anything", "something", "knowledge">>,
                                                 hint |-> "Try asking a different question",
                                                 difficulty |-> 1],
                                  unlocked |-> TRUE, revealed |-> FALSE]>>,
                  total_segments |-> 1,
                  completion_stats |-> [unlocked_count |-> 1, revealed_count |-> 0,
                                        solved_count |-> 0]],
     metadata |-> [error |-> TRUE, total_segments |-> 1, avg_difficulty |-> 1,
                   complexity |-> "low", interaction_type |-> "puzzle_based"],
     css_classes |-> <<"puzzle-based", "error">>,
     javascript_code |-> NoneStr,
     frontend_config |-> NoneMap]

get_error_result(self, message) ==
    IF self.mode_name = "puzzle_based" THEN Puzzle_get_error_result(self, message)
    ELSE Base_get_error_result(self, message)

\* BaseRepresentation.extract_sentences
extract_sentences(content) == SelectSeqStripped(SplitSentences(content), 1)

\* BaseRepresentation.extract_paragraphs
extract_paragraphs(content) == SelectSeqStripped(Split(content, "\n\n"), 1)

\* BaseRepresentation.calculate_word_count
calculate_word_count(content) == Len(Words(content))

\* BaseRepresentation.estimate_read_time, wpm = 200
WordsPerMinute == 200
estimate_read_time(content) ==
    IntStr(Max(1, calculate_word_count(content) \div WordsPerMinute)) \o " min"

(***************************************************************************)
(* Regular expressions of the source.  An element of a pattern is matched  *)
(* at a position p of s (1-based; 0: an earlier element has failed) and     *)
(* gives the position after it, 0 when it does not match.  A match of a     *)
(* whole pattern is [e |-> index of its last character, g |-> its groups];  *)
(* e = 0: no match.                                                         *)
(***************************************************************************)
NoMatch == [e |-> 0, g |-> <<>>]

\* a word character (\w) stands at position p
WordAt(s, p) == p >= 1 /\ p <= Len(s) /\ IsWordChar(CharAt(s, p))

\* \b at p: exactly one of the characters before and at p is a word character
Edge(s, p) == IF p > 0 /\ WordAt(s, p - 1) # WordAt(s, p) THEN p ELSE 0

\* the literal w stands at i, letters compared without case when ic
\* (re.IGNORECASE)
LitAt(s, i, w, ic) ==
    /\ i >= 1
    /\ i + Len(w) - 1 <= Len(s)
    /\ IF ic THEN Lower(SubSeq(s, i, i + Len(w) - 1)) = Lower(w)
             ELSE SubSeq(s, i, i + Len(w) - 1) = w

\* the literal w
Lit(s, p, w, ic) == IF p > 0 /\ LitAt(s, p, w, ic) THEN p + Len(w) ELSE 0

\* w?: greedy.  It is used where giving the w back cannot help the rest match
Opt(s, p, w, ic) == IF p > 0 /\ LitAt(s, p, w, ic) THEN p + Len(w) ELSE p

\* (a|b|...): the first alternative that matches.  It is used where a later
\* alternative cannot help the rest match when an earlier one matches
Alt(s, p, alts, ic) ==
    IF p > 0 /\ \E k \in DOMAIN alts : LitAt(s, p, alts[k], ic)
    THEN p + Len(alts[Least({k \in DOMAIN alts : LitAt(s, p, alts[k], ic)})])
    ELSE 0

\* \s+ : the whole run of whitespace (what follows never starts with whitespace)
Spaces(s, p) ==
    IF p > 0 /\ p <= Len(s) /\ IsSpaceChar(CharAt(s, p))
    THEN RunEnd(s, p, SpaceChars) + 1 ELSE 0

\* \d{n} stands at i
DigitsAt(s, i, n) == i >= 1 /\ i + n - 1 <= Len(s) /\ \A k \in i..(i + n - 1) : IsDigit(CharAt(s, k))

\* \d{n}
DigitRun(s, p, n) == IF p > 0 /\ DigitsAt(s, p, n) THEN p + n ELSE 0

\* \d+ : the whole run of digits (what follows never starts with a digit)
DigitsPlus(s, p) ==
    IF p > 0 /\ p <= Len(s) /\ IsDigit(CharAt(s, p)) THEN RunEnd(s, p, Digits) + 1 ELSE 0

\* \d{1,2}[seps]: two digits if a separator follows them, else one
Digits12Sep(s, p, seps) ==
    IF p > 0 /\ DigitsAt(s, p, 2) /\ p + 2 <= Len(s) /\ CharAt(s, p + 2) \in seps THEN p + 3
    ELSE IF p > 0 /\ DigitsAt(s, p, 1) /\ p + 1 <= Len(s) /\ CharAt(s, p + 1) \in seps
    THEN p + 2
    ELSE 0

\* \d{1,2}\b: two digits if a word boundary follows them, else one
Digits12Edge(s, p) ==
    IF p > 0 /\ DigitsAt(s, p, 2) /\ ~WordAt(s, p + 2) THEN p + 2
    ELSE IF p > 0 /\ DigitsAt(s, p, 1) /\ ~WordAt(s, p + 1) THEN p + 1
    ELSE 0

\* \d{1,2}(a|b|...): the position after the digits, two digits if an
\* alternative follows them, else one
Digits12Alt(s, p, alts, ic) ==
    IF p > 0 /\ DigitsAt(s, p, 2) /\ Alt(s, p + 2, alts, ic) > 0 THEN p + 2
    ELSE IF p > 0 /\ DigitsAt(s, p, 1) /\ Alt(s, p + 1, alts, ic) > 0 THEN p + 1
    ELSE 0

\* one character of the set cs
OneOf(s, p, cs) == IF p > 0 /\ p <= Len(s) /\ CharAt(s, p) \in cs THEN p + 1 ELSE 0

WordChars == UpperLetters \cup LowerLetters \cup Digits \cup {"_"}

\* \w* : the whole run of word characters
WordRun(s, p) == IF p > 0 THEN RunEnd(s, p, WordChars) + 1 ELSE 0

\* the match that ends before n, with the groups s[b1..e1), s[b2..e2), ...
Match1(s, b1, e1, n) ==
    IF n = 0 THEN NoMatch ELSE [e |-> n - 1, g |-> <<SubSeq(s, b1, e1 - 1)>>]

Match2(s, b1, e1, b2, e2, n) ==
    IF n = 0 THEN NoMatch
    ELSE [e |-> n - 1, g |-> <<SubSeq(s, b1, e1 - 1), SubSeq(s, b2, e2 - 1)>>]

Match3(s, b1, e1, b2, e2, b3, e3, n) ==
    IF n = 0 THEN NoMatch
    ELSE [e |-> n - 1,
          g |-> <<SubSeq(s, b1, e1 - 1), SubSeq(s, b2, e2 - 1), SubSeq(s, b3, e3 - 1)>>]

\* the match from i that ends before n, its one group the whole match
Whole(s, i, n) == Match1(s, i, n, n)

\* \b(\d{4})\b
Re_year(s, i) == Whole(s, i, Edge(s, DigitRun(s, Edge(s, i), 4)))

\* \b(\d{1,2}SEP\d{1,2}SEP\d{4})\b with SEP one character of seps
Re_dmy(s, i, seps) ==
    Whole(s, i, Edge(s, DigitRun(s, Digits12Sep(s, Digits12Sep(s, Edge(s, i), seps), seps), 4)))

\* \b(\d{1,2}[-/]\d{1,2}[-/]\d{4})\b
Re_date(s, i) == Re_dmy(s, i, {"-", "/"})

\* \b(\d{1,2}/\d{1,2}/\d{4})\b
Re_slash_date(s, i) == Re_dmy(s, i, {"/"})

\* \b(\d{4}[-/]\d{1,2}[-/]\d{1,2})\b
Re_iso(s, i) ==
    Whole(s, i,
          Digits12Edge(s, Digits12Sep(s, OneOf(s, DigitRun(s, Edge(s, i), 4), {"-", "/"}),
                                      {"-", "/"})))

MonthNames ==
    <<"January", "February", "March", "April", "May", "June", "July", "August",
      "September", "October", "November", "December">>

ShortMonthNames ==
    <<"Jan", "Feb", "Mar", "Apr", "May", "Jun", "Jul", "Aug", "Sep", "Oct", "Nov", "Dec">>

\* (word)...\s+(\d{4})\b from i, the word ending before a and the whitespace
\* starting at p
WordThenYear(s, i, a, p) ==
    Match2(s, i, a, Spaces(s, p), DigitRun(s, Spaces(s, p), 4),
           Edge(s, DigitRun(s, Spaces(s, p), 4)))

\* \b(January|...|December)\s+(\d{4})\b
Re_month_year(s, i, ic) ==
    WordThenYear(s, i, Alt(s, Edge(s, i), MonthNames, ic), Alt(s, Edge(s, i), MonthNames, ic))

\* the pattern without flags
Re_month_name_year(s, i) == Re_month_year(s, i, FALSE)

\* \b(Jan|...|Dec)\.?\s+(\d{4})\b
Re_short_month_year(s, i, ic) ==
    WordThenYear(s, i, Alt(s, Edge(s, i), ShortMonthNames, ic),
                 Opt(s, Alt(s, Edge(s, i), ShortMonthNames, ic), ".", FALSE))

\* (word)\s+(\d{4}s?)\b from i, the word ending before a
WordThenDecade(s, i, a, ic) ==
    Match2(s, i, a, Spaces(s, a), Edge(s, Opt(s, DigitRun(s, Spaces(s, a), 4), "s", ic)),
           Edge(s, Opt(s, DigitRun(s, Spaces(s, a), 4), "s", ic)))

\* \b(early|mid|late)\s+(\d{4}s?)\b
Re_period(s, i, ic) == WordThenDecade(s, i, Alt(s, Edge(s, i), <<"early", "mid", "late">>, ic), ic)

\* \b(\d{4}s)\b
Re_decade(s, i, ic) == Whole(s, i, Edge(s, Lit(s, DigitRun(s, Edge(s, i), 4), "s", ic)))

\* \b(first|second|third|fourth|last)\s+(quarter|half)\s+of\s+(\d{4})\b
Re_quarter(s, i, ic) ==
    LET a == Alt(s, Edge(s, i), <<"first", "second", "third", "fourth", "last">>, ic)
        b == Spaces(s, a)
        c == Alt(s, b, <<"quarter", "half">>, ic)
        d == Spaces(s, Lit(s, Spaces(s, c), "of", ic))
    IN  Match3(s, i, a, b, c, d, DigitRun(s, d, 4), Edge(s, DigitRun(s, d, 4)))

OrdinalSuffixes == <<"st", "nd", "rd", "th">>

\* (\d{1,2})(st|nd|rd|th)\s+century\b from i, the digits ending before a
OrdinalCentury(s, i, a, ic) ==
    Match2(s, i, a, a, Alt(s, a, OrdinalSuffixes, ic),
           Edge(s, Lit(s, Spaces(s, Alt(s, a, OrdinalSuffixes, ic)), "century", ic)))

\* \b(\d{1,2})(st|nd|rd|th)\s+century\b
Re_century(s, i, ic) ==
    OrdinalCentury(s, i, Digits12Alt(s, Edge(s, i), OrdinalSuffixes, ic), ic)

\* (era)\s+(times?|era|period)\b from i, the era ending before a
EraThenNoun(s, i, a, ic) ==
    Match2(s, i, a, Spaces(s, a),
           Edge(s, Alt(s, Spaces(s, a), <<"times", "time", "era", "period">>, ic)),
           Edge(s, Alt(s, Spaces(s, a), <<"times", "time", "era", "period">>, ic)))

\* \b(ancient|medieval|modern|contemporary|prehistoric)\s+(times?|era|period)\b
Re_historical(s, i, ic) ==
    EraThenNoun(s, i,
                Alt(s, Edge(s, i),
                    <<"ancient", "medieval", "modern", "contemporary", "prehistoric">>, ic),
                ic)

\* (\d+)\s+years?\s+ago\b from i, the digits ending before a
DigitsYearsAgo(s, i, a, ic) ==
    Match1(s, i, a,
           Edge(s, Lit(s, Spaces(s, Opt(s, Lit(s, Spaces(s, a), "year", ic), "s", ic)),
                       "ago", ic)))

\* \b(\d+)\s+years?\s+ago\b
Re_years_ago(s, i, ic) == DigitsYearsAgo(s, i, DigitsPlus(s, Edge(s, i)), ic)

RelativeWords ==
    <<"recently", "lately", "currently", "now", "today", "tomorrow", "yesterday">>

\* \b(recently|lately|currently|now|today|tomorrow|yesterday)\b
Re_relative_time(s, i, ic) == Whole(s, i, Edge(s, Alt(s, Edge(s, i), RelativeWords, ic)))

\* [A-Z][a-z]+ with the given classes for the first and the later characters
CapWord(s, p, first, rest) ==
    IF p > 0 /\ p + 1 <= Len(s) /\ CharAt(s, p) \in first /\ CharAt(s, p + 1) \in rest
    THEN RunEnd(s, p + 1, rest) + 1 ELSE 0

\* the end of the longer chain, or of this one if a word boundary follows it
LongerOrEdge(s, n, longer) == IF longer > 0 THEN longer ELSE Edge(s, n)

RECURSIVE CapChain(_, _, _, _)
\* (?:\s+[A-Z][a-z]+)*\b after a word that ends before n, greedy: as many
\* words as leave a word boundary after the last one
CapChain(s, n, first, rest) ==
    IF n = 0 THEN 0
    ELSE LongerOrEdge(s, n,
                      IF CapWord(s, Spaces(s, n), first, rest) > 0
                      THEN CapChain(s, CapWord(s, Spaces(s, n), first, rest), first, rest)
                      ELSE 0)

\* \b[A-Z][a-z]+(?:\s+[A-Z][a-z]+)*\b
Re_capitalized(s, i, first, rest) ==
    Whole(s, i, CapChain(s, CapWord(s, Edge(s, i), first, rest), first, rest))

Letters == UpperLetters \cup LowerLetters

\* r'\b[A-Z][a-z]+(?:\s+[A-Z][a-z]+)*\b' without flags
Re_capitalized_phrase(s, i) == Re_capitalized(s, i, UpperLetters, LowerLetters)

\* r'\b[A-Z][a-zA-Z]+(?:\s+[A-Z][a-zA-Z]+)*\b' with re.IGNORECASE
Re_proper_nouns(s, i) == Re_capitalized(s, i, Letters, Letters)

\* \b(?:AI|API|...|NoSQL)\b with re.IGNORECASE
TechnicalTerms ==
    <<"AI", "API", "CPU", "GPU", "ML", "IoT", "VR", "AR", "5G", "HTTP", "JSON", "XML",
      "SQL", "NoSQL">>

Re_technical_terms(s, i) == Whole(s, i, Edge(s, Alt(s, Edge(s, i), TechnicalTerms, TRUE)))

ConceptStems ==
    <<"algorithm", "framework", "methodology", "principle", "concept", "theory", "model",
      "system", "process", "technique">>

\* \b(?:algorithm|...|technique)\w*\b with re.IGNORECASE
Re_concepts(s, i) == Whole(s, i, WordRun(s, Alt(s, Edge(s, i), ConceptStems, TRUE)))

\* (?:the|a|an)\s+ : the first determiner that whitespace follows
Determiner(s, p) ==
    IF Spaces(s, Lit(s, p, "the", TRUE)) > 0 THEN Spaces(s, Lit(s, p, "the", TRUE))
    ELSE IF Spaces(s, Lit(s, p, "a", TRUE)) > 0 THEN Spaces(s, Lit(s, p, "a", TRUE))
    ELSE Spaces(s, Lit(s, p, "an", TRUE))

\* the phrase of capitalized words from b, the one group of the match
PhraseFrom(s, b) == Match1(s, b, CapChain(s, CapWord(s, b, Letters, Letters), Letters, Letters),
                           CapChain(s, CapWord(s, b, Letters, Letters), Letters, Letters))

\* \b(?:the|a|an)\s+([A-Z][a-z]+(?:\s+[A-Z][a-z]+)*)\b with re.IGNORECASE
Re_entities_with_determiners(s, i) == PhraseFrom(s, Determiner(s, Edge(s, i)))

\* relationship_patterns of extract_relationships_enhanced: the type and the
\* verb alternatives of each pattern, in the order the regex tries them
relationship_patterns ==
    <<[type |-> "is_a", verbs |-> <<"is", "are">>],
      [type |-> "has",
       verbs |-> <<"has", "have", "contains", "contain", "includes", "include">>],
      [type |-> "uses",
       verbs |-> <<"uses", "use", "utilizes", "utilize", "employs", "employ">>],
      [type |-> "creates",
       verbs |-> <<"creates", "create", "produces", "produce", "generates", "generate",
                   "builds", "build">>],
      [type |-> "enables",
       verbs |-> <<"enables", "enable", "allows", "allow", "facilitates", "facilitate">>],
      [type |-> "requires",
       verbs |-> <<"requires", "require", "needs", "need", "depends on">>],
      [type |-> "implements",
       verbs |-> <<"implements", "implement", "realizes", "realize">>],
      [type |-> "extends",
       verbs |-> <<"extends", "extend", "inherits from", "inherit from">>],
      [type |-> "interacts_with",
       verbs |-> <<"communicates with", "communicate with", "interacts with",
                   "interact with">>],
      [type |-> "processes",
       verbs |-> <<"processes", "processe", "handles", "handle", "manages", "manage">>],
      [type |-> "stores",
       verbs |-> <<"stores", "store", "contains data about", "contain data about">>],
      [type |-> "connects_to",
       verbs |-> <<"connects to", "connect to", "links to", "link to">>],
      [type |-> "related_to", verbs |-> <<"and", "with", "plus">>],
      [type |-> "alternative_to", verbs |-> <<"or", "versus", "vs">>]>>

\* \s+ at i: the last index of the run, 0 when there is no whitespace at i
SpacesEnd(s, i) == IF i <= Len(s) /\ IsSpaceChar(CharAt(s, i)) THEN RunEnd(s, i, SpaceChars) ELSE 0

RECURSIVE WordChainEnd(_, _)
\* (?:\s+\w+)* after a word ending at e, greedy: the end of the last word taken
WordChainEnd(s, e) ==
    IF SpacesEnd(s, e + 1) > 0 /\ WordAt(s, SpacesEnd(s, e + 1) + 1)
    THEN WordChainEnd(s, RunEnd(s, SpacesEnd(s, e + 1) + 1, WordChars))
    ELSE e

\* the verbs of the pattern that stand at j with whitespace after them, inside
\* the run of words that ends at last
VerbsAt(s, j, verbs, last) ==
    {k \in DOMAIN verbs :
        /\ LitAt(s, j, verbs[k], TRUE)
        /\ j + Len(verbs[k]) <= last
        /\ IsSpaceChar(CharAt(s, j + Len(verbs[k])))}

\* the starts of the words after the first of the run from i that are verbs
VerbStarts(s, i, verbs, last) ==
    {j \in (i + 2)..last :
        /\ IsSpaceChar(CharAt(s, j - 1))
        /\ IsWordChar(CharAt(s, j))
        /\ VerbsAt(s, j, verbs, last) # {}}

\* (?:a|an|the)?\s*(\w+...  at q: a determiner is taken when a word character
\* follows it, directly or after whitespace; the position of the second group
Taken(s, q, d, last) ==
    /\ LitAt(s, q, d, TRUE)
    /\ q + Len(d) <= last
    /\ \/ IsWordChar(CharAt(s, q + Len(d)))
       \/ IsSpaceChar(CharAt(s, q + Len(d)))

AfterDet(s, q, d) ==
    IF IsWordChar(CharAt(s, q + Len(d))) THEN q + Len(d) ELSE SpacesEnd(s, q + Len(d)) + 1

SecondGroupStart(s, q, last, determiner) ==
    IF ~determiner THEN q
    ELSE IF Taken(s, q, "a", last) THEN AfterDet(s, q, "a")
    ELSE IF Taken(s, q, "an", last) THEN AfterDet(s, q, "an")
    ELSE IF Taken(s, q, "the", last) THEN AfterDet(s, q, "the")
    ELSE q

\* the match whose verb starts at j: the first group ends with the last word
\* before j, the second starts after the verb's whitespace
RelationAt(s, i, verbs, determiner, last, j) ==
    [e |-> last,
     g |-> <<SubSeq(s, i, Greatest({k \in i..(j - 1) : IsWordChar(CharAt(s, k))})),
             SubSeq(s,
                    SecondGroupStart(
                        s, SpacesEnd(s, j + Len(verbs[Least(VerbsAt(s, j, verbs, last))])) + 1,
                        last, determiner),
                    last)>>]

\* the match in the run of words from i that ends at last
RelationIn(s, i, verbs, determiner, last) ==
    IF VerbStarts(s, i, verbs, last) = {} THEN NoMatch
    ELSE RelationAt(s, i, verbs, determiner, last, Greatest(VerbStarts(s, i, verbs, last)))

\* (\w+(?:\s+\w+)*)\s+(?:verbs)\s+[(?:a|an|the)?\s*](\w+(?:\s+\w+)*) at i with
\* re.IGNORECASE: the first group is greedy, so the verb taken is the last one of
\* the run of words that has a word after it; the second group takes the rest.
\* A match that starts inside a word exists only if the one from the start of
\* that word does, so the scan finds its matches at the starts of words
Re_relationship(s, i, verbs, determiner) ==
    IF WordAt(s, i) /\ ~WordAt(s, i - 1)
    THEN RelationIn(s, i, verbs, determiner, WordChainEnd(s, RunEnd(s, i, WordChars)))
    ELSE NoMatch

RECURSIVE FindAllFrom(_, _, _)
\* the matches of the pattern Re from i on: the leftmost one, then those after it
FindAllFrom(Re(_, _), s, i) ==
    LET at == {j \in i..Len(s) : Re(s, j).e > 0}
    IN  IF at = {} THEN <<>>
        ELSE <<Re(s, Least(at)).g>> \o FindAllFrom(Re, s, Re(s, Least(at)).e + 1)

\* re.findall(pattern, s): the groups of each match, in order
FindAll(Re(_, _), s) == FindAllFrom(Re, s, 1)

RECURSIVE SubFrom(_, _, _)
SubFrom(Re(_, _), s, i) ==
    LET at == {j \in i..Len(s) : Re(s, j).e > 0}
    IN  IF at = {} THEN SubSeq(s, i, Len(s))
        ELSE SubSeq(s, i, Least(at) - 1) \o SubFrom(Re, s, Re(s, Least(at)).e + 1)

\* re.sub(pattern, '', s)
Sub(Re(_, _), s) == SubFrom(Re, s, 1)

\* a match as findall returns it when joined: the group, or the groups spaced
MatchText(g) == Join(g, " ")

(***************************************************************************)
(* Sequences                                                               *)
(***************************************************************************)
\* a local variable of the source: Rest, the code after the assignment, with
\* the variable holding value
Local(value, Rest(_)) == Rest(value)

\* seq[a:b] of Python (0-based, b exclusive, both clipped)
Slice(seq, a, b) == SubSeq(seq, a + 1, Min(b, Len(seq)))

RECURSIVE DedupFrom(_, _, _)
DedupFrom(seq, i, seen) ==
    IF i > Len(seq) THEN <<>>
    ELSE IF seq[i] \in seen THEN DedupFrom(seq, i + 1, seen)
    ELSE <<seq[i]>> \o DedupFrom(seq, i + 1, seen \cup {seq[i]})

\* the distinct elements in first-seen order (list(dict.fromkeys(seq)))
Dedup(seq) == DedupFrom(seq, 1, {})

\* list(set(seq)): the distinct elements in the order the process's string
\* hashing gives them.  The order is a function of the hash seed and the
\* elements; the model draws it from the rotations of the first-seen order.
SetOrder(seq, seed) ==
    LET d == Dedup(seq)
        n == Len(d)
    IN  [i \in 1..n |-> d[((i - 1 + seed) % n) + 1]]

\* any(k in s for k in keywords)
AnyIn(s, keywords) == \E k \in DOMAIN keywords : Contains(s, keywords[k])

RECURSIVE PickFrom(_, _, _, _)
PickFrom(items, tags, tag, i) ==
    IF i > Len(items) THEN <<>>
    ELSE (IF tags[i] = tag THEN <<items[i]>> ELSE <<>>) \o PickFrom(items, tags, tag, i + 1)

\* the items whose tag is tag, in order
Pick(items, tags, tag) == PickFrom(items, tags, tag, 1)

\* round(a / b, 2) in hundredths, b > 0 (ties to even)
RoundHundredths(a, b) ==
    LET q == (100 * a) \div b
        r == (100 * a) % b
    IN  IF 2 * r > b THEN q + 1
        ELSE IF 2 * r < b THEN q
        ELSE IF q % 2 = 0 THEN q ELSE q + 1

\* [1, 2, ..., n]
Indices(n) == [i \in 1..n |-> i]

\* the 1-based indices of the parts that are not blank (if part.strip())
NonBlank(parts) == SelectSeq(Indices(Len(parts)), LAMBDA i : Strip(parts[i]) # "")

(***************************************************************************)
(* core/representations.py: RepresentationEngine                            *)
(***************************************************************************)
\* RepresentationEngine.__init__: available_modes, in the dict's order
EngineModeIds ==
    <<"plain_text", "color_coded", "collapsible_concepts", "knowledge_graph",
      "analogical", "persona_eli5", "persona_expert", "persona_layman", "cinematic",
      "interactive", "timeline", "comparison", "summary", "detailed">>

EngineInit ==
    ("plain_text" :> [name |-> "Plain Text", description |-> "Simple, clean text format",
                      icon |-> "U+1F4DD", category |-> "basic"])
    @@ ("color_coded" :> [name |-> "Color-Coded",
                          description |-> "Color-tagged sections with legend",
                          icon |-> "U+1F3A8", category |-> "visual"])
    @@ ("collapsible_concepts" :> [name |-> "Collapsible Concepts",
                                   description |-> "Nested, expandable concept trees",
                                   icon |-> "U+1F9E9", category |-> "interactive"])
    @@ ("knowledge_graph" :> [name |-> "Knowledge Graph",
                              description |-> "Visual web of interconnected concepts",
                              icon |-> "U+1F9E0", category |-> "visual"])
    @@ ("analogical" :> [name |-> "Analogical", description |-> "Metaphor-based explanations",
                         icon |-> "U+1F9EA", category |-> "creative"])
    @@ ("persona_eli5" :> [name |-> "ELI5", description |-> "Explain like I'm 5",
                           icon |-> "U+1F476", category |-> "persona"])
    @@ ("persona_expert" :> [name |-> "Expert", description |-> "Technical, detailed analysis",
                             icon |-> "U+1F469 U+200D U+1F52C", category |-> "persona"])
    @@ ("persona_layman" :> [name |-> "Layman", description |-> "General audience explanation",
                             icon |-> "U+1F468 U+200D U+1F3EB", category |-> "persona"])
    @@ ("cinematic" :> [name |-> "Cinematic", description |-> "Narrative storytelling approach",
                        icon |-> "U+1F39E U+FE0F", category |-> "creative"])
    @@ ("interactive" :> [name |-> "Interactive",
                          description |-> "Engaging scenarios and examples",
                          icon |-> "U+1F579 U+FE0F", category |-> "interactive"])
    @@ ("timeline" :> [name |-> "Timeline", description |-> "Chronological evolution view",
                       icon |-> "U+23F3", category |-> "temporal"])
    @@ ("comparison" :> [name |-> "Multi-perspective",
                         description |-> "Different viewpoints side-by-side",
                         icon |-> "U+1F4AC", category |-> "analytical"])
    @@ ("summary" :> [name |-> "Summary", description |-> "Concise key points",
                      icon |-> "U+1F4E6", category |-> "basic"])
    @@ ("detailed" :> [name |-> "Detailed", description |-> "Comprehensive deep dive",
                       icon |-> "U+1F4DA", category |-> "basic"])

\* handler_map of generate_representation: the handler bound to each catalog id
handler_map(mode) ==
    CASE mode = "plain_text" -> "_generate_plain_text"
      [] mode = "color_coded" -> "_generate_color_coded"
      [] mode = "collapsible_concepts" -> "_generate_collapsible_concepts"
      [] mode = "knowledge_graph" -> "_generate_knowledge_graph"
      [] mode = "analogical" -> "_generate_analogical"
      [] mode \in {"persona_eli5", "persona_expert", "persona_layman"} ->
            "_generate_persona_based"
      [] mode = "cinematic" -> "_generate_cinematic"
      [] mode = "interactive" -> "_generate_interactive"
      [] mode = "timeline" -> "_generate_timeline"
      [] mode = "comparison" -> "_generate_comparison"
      [] mode = "summary" -> "_generate_summary"
      [] mode = "detailed" -> "_generate_detailed"
      [] OTHER -> "_generate_plain_text"

\* the engine's RepresentationResult (no frontend_config field)
EngineResult(mode, content, metadata, css_classes, javascript_code) ==
    [mode |-> mode, content |-> content, metadata |-> metadata,
     css_classes |-> css_classes, javascript_code |-> javascript_code]

_generate_plain_text(content, preferences) ==
    EngineResult("plain_text",
                 [text |-> content, formatted |-> Replace(content, "\n", "<br>")],
                 [word_count |-> Len(Words(content)),
                  estimated_read_time |-> IntStr(Len(Words(content)) \div 200 + 1) \o " min"],
                 <<"plain-text", "readable">>, NoneStr)

\* the bucket of one stripped sentence in _extract_color_coded_sections
EngineBucket(sentence) ==
    LET lower_sentence == Lower(sentence)
    IN  IF AnyIn(lower_sentence, <<"fact", "data", "research", "study", "evidence">>)
        THEN "facts"
        ELSE IF AnyIn(lower_sentence, <<"assume", "likely", "probably", "might", "could">>)
        THEN "assumptions"
        ELSE IF AnyIn(lower_sentence,
                      <<"example", "instance", "such as", "like", "for example">>)
        THEN "examples"
        ELSE IF AnyIn(lower_sentence, <<"warning", "risk", "danger", "caution", "avoid">>)
        THEN "warnings"
        ELSE "facts"

BucketNames == <<"facts", "assumptions", "examples", "warnings">>

_extract_color_coded_sections(content) ==
    LET sentences == SelectSeqStripped(Split(content, "."), 1)
    IN  [b \in Range(BucketNames) |->
            SelectSeq(sentences, LAMBDA sentence : EngineBucket(sentence) = b)]

\* max(sections.keys(), key=lambda k: len(sections[k])): the first longest bucket
DominantType(sections) ==
    BucketNames[Least({k \in DOMAIN BucketNames :
                          \A j \in DOMAIN BucketNames :
                              Len(sections[BucketNames[j]]) <= Len(sections[BucketNames[k]])})]

EngineLegend ==
    [facts |-> [color |-> "blue", label |-> "Key Facts", icon |-> "U+1F4CA"],
     assumptions |-> [color |-> "yellow", label |-> "Assumptions", icon |-> "U+2753"],
     examples |-> [color |-> "green", label |-> "Examples", icon |-> "U+1F4A1"],
     warnings |-> [color |-> "red", label |-> "Warnings/Risks", icon |-> "U+26A0 U+FE0F"]]

_generate_color_coded(content, preferences) ==
    LET sections == _extract_color_coded_sections(content)
    IN  EngineResult("color_coded",
                     [sections |-> sections, legend |-> EngineLegend],
                     [sections_count |-> Cardinality(DOMAIN sections),
                      dominant_type |-> DominantType(sections)],
                     <<"color-coded", "with-legend">>, NoneStr)

\* title of a concept: paragraph.split('.')[0], cut to 50 characters with "..."
ConceptTitle(paragraph) ==
    LET first == Split(paragraph, ".")[1]
    IN  IF Len(first) > 50 THEN Upto(first, 50) \o "..." ELSE first

_extract_hierarchical_concepts(content) ==
    LET paragraphs == Split(content, "\n\n")
        kept == NonBlank(paragraphs)
    IN  [k \in 1..Len(kept) |->
            [id |-> "concept_" \o IntStr(kept[k] - 1),
             title |-> ConceptTitle(paragraphs[kept[k]]),
             content |-> Strip(paragraphs[kept[k]]),
             level |-> 1,
             children |-> <<>>]]

\* _get_max_depth: max of the levels, default 1
_get_max_depth(concepts) ==
    IF Len(concepts) = 0 THEN 1 ELSE Greatest({concepts[k].level : k \in DOMAIN concepts})

RECURSIVE SumLen(_, _)
SumLen(concepts, k) ==
    IF k > Len(concepts) THEN 0 ELSE Len(concepts[k].children) + SumLen(concepts, k + 1)

_count_concepts(concepts) == Len(concepts) + SumLen(concepts, 1)

_generate_collapsible_concepts(content, preferences) ==
    LET concepts == _extract_hierarchical_concepts(content)
    IN  EngineResult("collapsible_concepts",
                     [concepts |-> concepts, max_depth |-> _get_max_depth(concepts)],
                     [total_concepts |-> _count_concepts(concepts),
                      complexity |-> IF Len(concepts) > 5 THEN "high"
                                     ELSE IF Len(concepts) > 2 THEN "medium" ELSE "low"],
                     <<"collapsible-concepts", "hierarchical">>,
                     "initializeCollapsibleConcepts();")

\* the first component of every match
Firsts(matches) == [k \in 1..Len(matches) |-> matches[k][1]]

\* _extract_entities_and_relationships: the entities, numbered in the order
\* the set of the capitalized phrases is iterated
EngineEntities(content, seed) ==
    Local(SetOrder(Firsts(FindAll(Re_capitalized_phrase, content)), seed),
          LAMBDA order :
              [k \in 1..Len(order) |->
                  [id |-> "entity_" \o IntStr(k - 1),
                   name |-> order[k],
                   type |-> "concept",
                   importance |-> Count(Lower(content), Lower(order[k]))]])

EngineRelationships(entities) ==
    [i \in 1..(Len(entities) - 1) |->
        [source |-> entities[i].id, target |-> entities[i + 1].id,
         relationship |-> "relates_to", type |-> "conceptual"]]

\* graph_data of _generate_knowledge_graph
EngineGraphData(entities, relationships) ==
    [nodes |-> [k \in 1..Len(entities) |->
                   [id |-> entities[k].id, label |-> entities[k].name,
                    type |-> entities[k].type, description |-> "",
                    size |-> entities[k].importance * 10]],
     edges |-> [k \in 1..Len(relationships) |->
                   [from |-> relationships[k].source,
                    to |-> relationships[k].target,
                    label |-> relationships[k].relationship,
                    type |-> relationships[k].type]]]

_generate_knowledge_graph(content, preferences, seed) ==
    Local(EngineEntities(content, seed),
          LAMBDA entities :
              EngineResult("knowledge_graph",
                           [graph_data |->
                                EngineGraphData(entities, EngineRelationships(entities)),
                            entities |-> entities,
                            relationships |-> EngineRelationships(entities)],
                           [node_count |-> Len(entities),
                            edge_count |-> Len(EngineRelationships(entities)),
                            complexity |-> IF Len(entities) > 10 THEN "high" ELSE "medium"],
                           <<"knowledge-graph", "interactive-viz">>,
                           "initializeKnowledgeGraph(graphData);"))

\* the lookahead (?=\.|,|$) after position e
PhraseStop(s, e) ==
    \/ e = Len(s)
    \/ CharAt(s, e + 1) \in {".", ","}
    \/ (e + 1 = Len(s) /\ CharAt(s, e + 1) = "\n")

\* the last index of the line that position g is on ('.' does not match "\n")
LineEnd(s, g) == Least({j \in g..Len(s) : CharAt(s, j) = "\n"} \cup {Len(s) + 1}) - 1

\* (.+?)(?=\.|,|$) from g: the end of the shortest group, 0 when there is none
PhraseGroupEnd(s, g) ==
    LET ok == {e \in g..LineEnd(s, g) : PhraseStop(s, e)}
    IN  IF ok = {} THEN 0 ELSE Least(ok)

\* kw\s+ at i: the positions after one or more of the whitespace characters
\* that follow kw from which the group can match
PhraseStarts(s, i, kw) ==
    IF LitAt(s, i, kw, TRUE)
    THEN {g \in (i + Len(kw) + 1)..(SpacesEnd(s, i + Len(kw)) + 1) : PhraseGroupEnd(s, g) > 0}
    ELSE {}

\* the match whose group starts at g
PhraseAt(s, g) == [e |-> PhraseGroupEnd(s, g), g |-> <<SubSeq(s, g, PhraseGroupEnd(s, g))>>]

\* kw\s+(.+?)(?=\.|,|$) with re.IGNORECASE at i; \s+ is greedy and gives back
Re_phrase(s, i, kw) ==
    IF PhraseStarts(s, i, kw) = {} THEN NoMatch
    ELSE PhraseAt(s, Greatest(PhraseStarts(s, i, kw)))

\* {field: match.strip(), "type": type} for each match
TypedItems(matches, field, type) ==
    [j \in 1..Len(matches) |-> (field :> Strip(matches[j][1])) @@ ("type" :> type)]

RECURSIVE PhraseItems(_, _, _, _, _)
\* for pattern in patterns: for match in re.findall(pattern, content, re.IGNORECASE)
PhraseItems(content, keywords, k, field, type) ==
    IF k > Len(keywords) THEN <<>>
    ELSE TypedItems(FindAll(LAMBDA t, j : Re_phrase(t, j, keywords[k]), content), field, type)
         \o PhraseItems(content, keywords, k + 1, field, type)

_extract_analogies(content) ==
    PhraseItems(content, <<"like", "similar to", "analogous to", "imagine">>, 1,
                "analogy", "comparison")

\* creativity_score = len(analogies) * 0.2 is kept in tenths
_generate_analogical(content, preferences) ==
    Local(_extract_analogies(content),
          LAMBDA analogies :
              EngineResult("analogical",
                           [primary_analogy |->
                                IF Len(analogies) > 0 THEN analogies[1] ELSE NoneMap,
                            all_analogies |-> analogies,
                            original_content |-> content],
                           [analogy_count |-> Len(analogies),
                            creativity_score_tenths |-> Len(analogies) * 2],
                           <<"analogical", "creative">>, NoneStr))

_generate_persona_based(content, preferences) ==
    EngineResult("persona_based",
                 [content |-> content,
                  persona_style |-> IF Contains(DictGet(preferences, "mode", ""), "eli5")
                                    THEN "eli5" ELSE "expert"],
                 [complexity_level |-> IF Contains(DictGet(preferences, "mode", ""), "eli5")
                                       THEN "beginner" ELSE "advanced",
                  target_audience |-> DictGet(preferences, "mode", "general")],
                 <<"persona-based", DictGet(preferences, "mode", "general")>>, NoneStr)

_extract_narrative_elements(content) ==
    [setting |-> "Knowledge exploration",
     characters |-> <<"User", "Information">>,
     conflict |-> "Understanding complex concepts",
     resolution |-> "Clear comprehension"]

_structure_into_acts(content) ==
    LET paragraphs == Split(content, "\n\n")
        total_paragraphs == Len(paragraphs)
    IN  <<[act |-> 1, title |-> "Introduction",
           content |-> Join(Slice(paragraphs, 0, total_paragraphs \div 3), " ")],
          [act |-> 2, title |-> "Development",
           content |-> Join(Slice(paragraphs, total_paragraphs \div 3,
                                  (2 * total_paragraphs) \div 3), " ")],
          [act |-> 3, title |-> "Resolution",
           content |-> Join(Slice(paragraphs, (2 * total_paragraphs) \div 3,
                                  total_paragraphs), " ")]>>

_generate_cinematic(content, preferences) ==
    EngineResult("cinematic",
                 [narrative |-> _extract_narrative_elements(content),
                  acts |-> _structure_into_acts(content),
                  dramatic_arc |-> TRUE],
                 [narrative_style |-> "dramatic", engagement_level |-> "high"],
                 <<"cinematic", "narrative">>, "initializeCinematicView();")

_create_interactive_elements(content) ==
    <<[type |-> "question", content |-> "What would you like to explore further?",
       options |-> <<"Details", "Examples", "Related Topics">>],
      [type |-> "scenario", content |-> "Consider this situation...",
       interactive |-> TRUE]>>

_extract_scenarios(content) ==
    <<[scenario |-> "Practical application",
       description |-> "How would you use this information?",
       options |-> <<"Personal use", "Professional use", "Academic use">>]>>

_generate_interactive(content, preferences) ==
    EngineResult("interactive",
                 [elements |-> _create_interactive_elements(content),
                  scenarios |-> _extract_scenarios(content)],
                 [interaction_count |-> Len(_create_interactive_elements(content)),
                  engagement_type |-> "hands_on"],
                 <<"interactive", "engaging">>, "initializeInteractiveElements();")

\* the first of date_patterns with a match in the sentence: its first match's
\* first group, "" when no pattern matches
EngineSentenceDate(sentence) ==
    IF Len(FindAll(Re_year, sentence)) > 0 THEN FindAll(Re_year, sentence)[1][1]
    ELSE IF Len(FindAll(Re_slash_date, sentence)) > 0
    THEN FindAll(Re_slash_date, sentence)[1][1]
    ELSE IF Len(FindAll(Re_month_name_year, sentence)) > 0
    THEN FindAll(Re_month_name_year, sentence)[1][1]
    ELSE ""

\* one event for each sentence that a pattern matches
_extract_timeline_events(content) ==
    Local(SelectSeq(Split(content, "."), LAMBDA t : EngineSentenceDate(t) # ""),
          LAMBDA dated :
              [k \in 1..Len(dated) |->
                  [date |-> EngineSentenceDate(dated[k]),
                   event |-> Strip(dated[k]),
                   importance |-> 1]])

_generate_timeline(content, preferences) ==
    Local(_extract_timeline_events(content),
          LAMBDA timeline_events :
              EngineResult("timeline",
                           [events |-> timeline_events,
                            start_date |-> IF Len(timeline_events) > 0
                                           THEN timeline_events[1].date ELSE NoneStr,
                            end_date |-> IF Len(timeline_events) > 0
                                         THEN timeline_events[Len(timeline_events)].date
                                         ELSE NoneStr],
                           [event_count |-> Len(timeline_events), time_span |-> "variable"],
                           <<"timeline", "chronological">>, "initializeTimeline();"))

_extract_comparisons(content) ==
    PhraseItems(content, <<"compared to", "versus", "while", "however">>, 1,
                "comparison", "contrast")

_extract_perspectives(content) ==
    <<[perspective |-> "Technical", content |-> "From a technical standpoint..."],
      [perspective |-> "Practical", content |-> "In practical terms..."]>>

_generate_comparison(content, preferences) ==
    Local(_extract_comparisons(content),
          LAMBDA comparisons :
              EngineResult("comparison",
                           [comparisons |-> comparisons,
                            perspectives |-> _extract_perspectives(content)],
                           [comparison_count |-> Len(comparisons),
                            perspective_count |-> Len(_extract_perspectives(content))],
                           <<"comparison", "multi-perspective">>, NoneStr))

_extract_key_points(content) ==
    LET paragraphs == Split(content, "\n\n")
        kept == NonBlank(paragraphs)
        key_points == [k \in 1..Len(kept) |->
                          Strip(Split(paragraphs[kept[k]], ".")[1] \o ".")]
    IN  Slice(key_points, 0, 5)

\* compression_ratio = round(len(' '.join(key_points)) / len(content), 2) is kept
\* in hundredths; the division is by len(content)
_generate_summary(content, preferences) ==
    LET key_points == _extract_key_points(content)
    IN  IF Len(content) = 0 THEN Raised("ZeroDivisionError")
        ELSE Returned(
               EngineResult("summary",
                     [key_points |-> key_points,
                      tldr |-> IF Len(key_points) > 0 THEN key_points[1]
                               ELSE "No summary available",
                      full_content |-> content],
                     [compression_ratio_hundredths |->
                          RoundHundredths(Len(Join(key_points, " ")), Len(content)),
                      key_point_count |-> Len(key_points)],
                     <<"summary", "condensed">>, NoneStr))

_create_detailed_sections(content) ==
    LET paragraphs == Split(content, "\n\n")
        kept == NonBlank(paragraphs)
    IN  [k \in 1..Len(kept) |->
            [title |-> "Section " \o IntStr(kept[k]),
             content |-> Strip(paragraphs[kept[k]]),
             analysis |-> "Detailed analysis would go here",
             related_concepts |-> <<>>]]

_generate_detailed(content, preferences) ==
    LET sections == _create_detailed_sections(content)
    IN  EngineResult("detailed",
                     [sections |-> sections, full_analysis |-> TRUE],
                     [section_count |-> Len(sections), detail_level |-> "comprehensive"],
                     <<"detailed", "comprehensive">>, NoneStr)

\* await handler(content, user_preferences or {}): what the handler returns or raises
CallHandler(handler, content, preferences, seed) ==
    CASE handler = "_generate_plain_text" -> Returned(_generate_plain_text(content, preferences))
      [] handler = "_generate_color_coded" -> Returned(_generate_color_coded(content, preferences))
      [] handler = "_generate_collapsible_concepts" ->
            Returned(_generate_collapsible_concepts(content, preferences))
      [] handler = "_generate_knowledge_graph" ->
            Returned(_generate_knowledge_graph(content, preferences, seed))
      [] handler = "_generate_analogical" -> Returned(_generate_analogical(content, preferences))
      [] handler = "_generate_persona_based" ->
            Returned(_generate_persona_based(content, preferences))
      [] handler = "_generate_cinematic" -> Returned(_generate_cinematic(content, preferences))
      [] handler = "_generate_interactive" -> Returned(_generate_interactive(content, preferences))
      [] handler = "_generate_timeline" -> Returned(_generate_timeline(content, preferences))
      [] handler = "_generate_comparison" -> Returned(_generate_comparison(content, preferences))
      [] handler = "_generate_summary" -> _generate_summary(content, preferences)
      [] handler = "_generate_detailed" -> Returned(_generate_detailed(content, preferences))

\* a fallback to another handler than plain_text's
RoutedToSummary(self, mode) == IF mode \notin DOMAIN self THEN "summary" ELSE mode

\* the mode generate_representation routes: the requested id if it is in the
\* catalog, "plain_text" otherwise
RoutedMode(self, mode) == IF mode \notin DOMAIN self THEN "plain_text" ELSE mode

\* RepresentationEngine.generate_representation, run in one piece
generate_representation(self, content, mode, user_preferences, seed) ==
    CallHandler(handler_map(RoutedMode(self, mode)), content, OrEmpty(user_preferences), seed)

(***************************************************************************)
(* representations/plain_text.py: PlainTextRepresentation                   *)
(***************************************************************************)
RECURSIVE SubDelimFrom(_, _, _, _, _)
\* re.sub of d([^d]+)d by open \1 close, from position i on
SubDelimFrom(s, d, open, close, i) ==
    LET at == {j \in i..(Len(s) - 2) :
                  /\ CharAt(s, j) = d
                  /\ CharAt(s, j + 1) # d
                  /\ \E k \in (j + 2)..Len(s) : CharAt(s, k) = d}
    IN  IF at = {} THEN SubSeq(s, i, Len(s))
        ELSE LET j == Least(at)
                 k == Least({k \in (j + 2)..Len(s) : CharAt(s, k) = d})
             IN  SubSeq(s, i, j - 1) \o open \o SubSeq(s, j + 1, k - 1) \o close
                 \o SubDelimFrom(s, d, open, close, k + 1)

RECURSIVE ReplaceICFrom(_, _, _, _)
\* re.compile(re.escape(term), re.IGNORECASE).sub(new, s), term in lower case
ReplaceICFrom(s, term, new, i) ==
    LET at == Occurrences(Lower(s), term, i)
    IN  IF at = {} THEN SubSeq(s, i, Len(s))
        ELSE SubSeq(s, i, Least(at) - 1) \o new
             \o ReplaceICFrom(s, term, new, Least(at) + Len(term))

tech_terms ==
    <<"artificial intelligence", "machine learning", "deep learning", "neural network",
      "algorithm", "blockchain", "quantum computing", "cloud computing", "big data",
      "internet of things", "cybersecurity">>

RECURSIVE HighlightTerms(_, _)
HighlightTerms(text, k) ==
    IF k > Len(tech_terms) THEN text
    ELSE HighlightTerms(
             ReplaceICFrom(text, tech_terms[k],
                           "<span class=\"tech-term\">" \o tech_terms[k] \o "</span>", 1),
             k + 1)

enhance_text_formatting(text) ==
    HighlightTerms(
        SubDelimFrom(SubDelimFrom(text, "*", "<strong>", "</strong>", 1),
                     "_", "<em>", "</em>", 1),
        1)

format_plain_text(content) ==
    LET formatted == Replace(Replace(content, "\n\n", "</p><p>"), "\n", "<br>")
    IN  enhance_text_formatting(
            IF ~StartsWith(formatted, "<p>") THEN "<p>" \o formatted \o "</p>"
            ELSE formatted)

\* the try block of PlainTextRepresentation.process
PlainText_result(self, content) ==
    [mode |-> self.mode_name,
     content |-> [text |-> content,
                  formatted |-> format_plain_text(content),
                  paragraphs |-> extract_paragraphs(content),
                  word_count |-> calculate_word_count(content),
                  read_time |-> estimate_read_time(content)],
     metadata |-> [word_count |-> calculate_word_count(content),
                   estimated_read_time |-> estimate_read_time(content),
                   paragraph_count |-> Len(extract_paragraphs(content)),
                   complexity |-> "low"],
     css_classes |-> <<"plain-text", "readable">>,
     javascript_code |-> NoneStr,
     frontend_config |-> [enable_copy |-> TRUE, enable_print |-> TRUE,
                          font_family |-> "Inter, sans-serif"]]

(***************************************************************************)
(* representations/color_coded.py: ColorCodedRepresentation                 *)
(***************************************************************************)
warning_indicators ==
    <<"warning", "danger", "risk", "caution", "avoid", "harmful", "unsafe", "threat",
      "vulnerability", "security", "breach", "attack", "malicious", "beware", "careful",
      "critical", "urgent", "important to note", "however", "but", "limitation",
      "drawback", "disadvantage", "problem", "issue", "concern", "challenge",
      "difficulty">>

example_indicators ==
    <<"example", "instance", "such as", "like", "for example", "for instance", "e.g.",
      "namely", "including", "consider", "suppose", "imagine", "case study",
      "demonstration", "illustration", "sample">>

assumption_indicators ==
    <<"assume", "assuming", "likely", "probably", "might", "could", "may", "perhaps",
      "possibly", "potentially", "presumably", "supposedly", "theoretically",
      "hypothetically", "arguably", "seemingly", "appears", "suggests", "implies",
      "indicates", "seems", "tends to", "often", "usually", "typically", "generally",
      "commonly", "frequently">>

fact_indicators ==
    <<"fact", "data", "research", "study", "evidence", "proof", "demonstrated", "shown",
      "proven", "established", "confirmed", "verified", "validated", "measured",
      "observed", "recorded", "documented", "published", "according to", "based on",
      "statistics", "findings", "results", "conclusion", "analysis", "survey",
      "experiment", "test">>

\* any(s.startswith(k) for k in starters)
AnyStart(s, starters) == \E k \in DOMAIN starters : StartsWith(s, starters[k])

classify_by_structure(sentence) ==
    LET sentence_lower == Lower(sentence)
    IN  IF EndsWith(Strip(sentence), "?") THEN "assumptions"
        ELSE IF \E j \in 1..Len(sentence) : IsDigit(CharAt(sentence, j)) THEN "facts"
        ELSE IF AnyStart(sentence_lower,
                         <<"it is", "this is", "that is", "there are", "there is">>)
        THEN "facts"
        ELSE IF AnyStart(sentence_lower, <<"if", "when", "while", "although", "unless">>)
        THEN "assumptions"
        ELSE IF Contains(sentence_lower, "if")
                /\ (Contains(sentence_lower, "then") \/ Contains(sentence_lower, "would"))
        THEN "assumptions"
        ELSE IF AnyStart(sentence_lower,
                         <<"do not", "avoid", "make sure", "ensure", "remember",
                           "be careful">>)
        THEN "warnings"
        ELSE "facts"

classify_sentence(sentence) ==
    LET sentence_lower == Lower(sentence)
    IN  IF AnyIn(sentence_lower, warning_indicators) THEN "warnings"
        ELSE IF AnyIn(sentence_lower, example_indicators) THEN "examples"
        ELSE IF AnyIn(sentence_lower, assumption_indicators) THEN "assumptions"
        ELSE IF AnyIn(sentence_lower, fact_indicators) THEN "facts"
        ELSE classify_by_structure(sentence)

\* a plausible fault: independent ifs, a sentence lands in every bucket whose
\* indicators it contains
categorize_multilabel(content) ==
    LET sentences == extract_sentences(content)
        hit(sentence, b) ==
            \/ b = "warnings" /\ AnyIn(Lower(sentence), warning_indicators)
            \/ b = "examples" /\ AnyIn(Lower(sentence), example_indicators)
            \/ b = "assumptions" /\ AnyIn(Lower(sentence), assumption_indicators)
            \/ b = "facts" /\ AnyIn(Lower(sentence), fact_indicators)
    IN  [b \in Range(BucketNames) |-> SelectSeq(sentences, LAMBDA sentence : hit(sentence, b))]

categorize_content(content) ==
    LET sentences == extract_sentences(content)
    IN  [b \in Range(BucketNames) |->
            SelectSeq(sentences, LAMBDA sentence : classify_sentence(sentence) = b)]

create_legend ==
    [facts |-> [color |-> "blue", bg_color |-> "bg-blue-50",
                border_color |-> "border-blue-400", text_color |-> "text-blue-800",
                label |-> "Key Facts & Data", icon |-> "U+1F4CA",
                description |->
                    "Verified information, research findings, and established facts"],
     assumptions |-> [color |-> "yellow", bg_color |-> "bg-yellow-50",
                      border_color |-> "border-yellow-400", text_color |-> "text-yellow-800",
                      label |-> "Assumptions & Hypotheses", icon |-> "U+2753",
                      description |->
                          "Uncertain elements, assumptions, and hypothetical scenarios"],
     examples |-> [color |-> "green", bg_color |-> "bg-green-50",
                   border_color |-> "border-green-400", text_color |-> "text-green-800",
                   label |-> "Examples & Illustrations", icon |-> "U+1F4A1",
                   description |->
                       "Concrete examples, case studies, and practical instances"],
     warnings |-> [color |-> "red", bg_color |-> "bg-red-50",
                   border_color |-> "border-red-400", text_color |-> "text-red-800",
                   label |-> "Warnings & Risks", icon |-> "U+26A0 U+FE0F",
                   description |->
                       "Important warnings, risks, limitations, and concerns"]]

\* the Result of ColorCodedRepresentation.process built from the sections
ColorCoded_result(self, sections) ==
    LET total_sections ==
            Len(sections.facts) + Len(sections.assumptions) + Len(sections.examples)
            + Len(sections.warnings)
    IN  [mode |-> self.mode_name,
         content |-> [sections |-> sections,
                      legend |-> create_legend,
                      statistics |-> [total_sections |-> total_sections,
                                      facts_count |-> Len(sections.facts),
                                      assumptions_count |-> Len(sections.assumptions),
                                      examples_count |-> Len(sections.examples),
                                      warnings_count |-> Len(sections.warnings)]],
         metadata |-> [sections_count |-> total_sections,
                       dominant_type |-> DominantType(sections),
                       complexity |-> IF total_sections > 10 THEN "medium" ELSE "low"],
         css_classes |-> <<"color-coded", "with-legend", "categorized">>,
         javascript_code |-> NoneStr,
         frontend_config |-> [enable_section_toggle |-> TRUE,
                              enable_category_filter |-> TRUE,
                              animation_enabled |-> TRUE]]

(***************************************************************************)
(* representations/timeline.py: TimelineRepresentation                      *)
(* 'period' is a float in the source (a year plus twelfths or tenths); the  *)
(* model keeps it exactly, in sixtieths of a year.                          *)
(***************************************************************************)
\* a parser returning None, or raising (the caller skips the match either way)
NoDate == NoneMap

parse_year(match) ==
    LET year == ParseNat(match)
    IN  IF 1800 <= year /\ year <= 2100
        THEN [year |-> year, period |-> year * 60, precision |-> "year", sort_key |-> year]
        ELSE NoDate

IsLeap(y) == y % 4 = 0 /\ (y % 100 # 0 \/ y % 400 = 0)

DaysInMonth(y, m) ==
    IF m = 2 THEN (IF IsLeap(y) THEN 29 ELSE 28)
    ELSE IF m \in {4, 6, 9, 11} THEN 30 ELSE 31

\* the three numbers and the two separators of a matched date
DateParts(match) ==
    LET seps == InClass(match, 1, {"-", "/"})
        p == Least(seps)
        q == Greatest(seps)
    IN  [a |-> SubSeq(match, 1, p - 1), s1 |-> CharAt(match, p),
         b |-> SubSeq(match, p + 1, q - 1), s2 |-> CharAt(match, q),
         c |-> SubSeq(match, q + 1, Len(match))]

\* datetime.strptime accepts the fields: month 1..12 and day 1..31 without
\* a "0" or "00", year 1..9999, and the day exists in the month
ValidDate(y, m, d) ==
    /\ ParseNat(y) >= 1
    /\ ParseNat(m) \in 1..12
    /\ ParseNat(d) >= 1
    /\ ParseNat(d) <= DaysInMonth(ParseNat(y), ParseNat(m))

DayDate(y, m, d) ==
    [year |-> y, month |-> m, day |-> d, period |-> y * 60 + (m - 1) * 5,
     precision |-> "day", sort_key |-> y * 10000 + m * 100 + d]

\* the formats '%m/%d/%Y', '%d/%m/%Y', '%m-%d-%Y', '%d-%m-%Y' in turn
parse_full_date(match) ==
    LET p == DateParts(match)
        y == ParseNat(p.c)
    IN  IF p.s1 # p.s2 THEN NoDate
        ELSE IF ValidDate(p.c, p.a, p.b) THEN DayDate(y, ParseNat(p.a), ParseNat(p.b))
        ELSE IF ValidDate(p.c, p.b, p.a) THEN DayDate(y, ParseNat(p.b), ParseNat(p.a))
        ELSE NoDate

\* the format '%Y-%m-%d'
parse_iso_date(match) ==
    LET p == DateParts(match)
    IN  IF p.s1 = "-" /\ p.s2 = "-" /\ ValidDate(p.a, p.b, p.c)
        THEN DayDate(ParseNat(p.a), ParseNat(p.b), ParseNat(p.c))
        ELSE NoDate

\* month_map.get(name): the index of the lower-cased name, 0 when absent
MonthNum(name, names) ==
    LET hit == {k \in DOMAIN names : Lower(names[k]) = name}
    IN  IF hit = {} THEN 0 ELSE Least(hit)

MonthDate(month_num, year) ==
    IF month_num > 0
    THEN [year |-> ParseNat(year), month |-> month_num,
          period |-> ParseNat(year) * 60 + (month_num - 1) * 5,
          precision |-> "month", sort_key |-> ParseNat(year) * 100 + month_num]
    ELSE NoDate

parse_month_year(match) == MonthDate(MonthNum(Lower(match[1]), MonthNames), match[2])

parse_short_month_year(match) ==
    MonthDate(MonthNum(Replace(Lower(match[1]), ".", ""), ShortMonthNames), match[2])

\* int(year_range) raises on "1990S", which the pattern matches without case
parse_relative_period(match) ==
    LET period_type == Lower(match[1])
        year_range == match[2]
        tenths == CASE period_type = "early" -> 2 [] period_type = "mid" -> 5
                    [] period_type = "late" -> 8 [] OTHER -> 5
        digits == IF EndsWith(year_range, "s") THEN SubSeq(year_range, 1, Len(year_range) - 1)
                  ELSE year_range
    IN  IF \E j \in 1..Len(digits) : ~IsDigit(CharAt(digits, j)) THEN NoDate
        ELSE [year |-> ParseNat(digits), period |-> ParseNat(digits) * 60 + tenths * 6,
              precision |-> "period", sort_key |-> ParseNat(digits) * 10 + tenths]

parse_decade(match) ==
    LET decade == ParseNat(SubSeq(match, 1, Len(match) - 1))
    IN  [year |-> decade, period |-> (decade + 5) * 60, precision |-> "decade",
         sort_key |-> decade]

parse_quarter(match) ==
    LET quarter_word == Lower(match[1])
        quarter_num == CASE quarter_word = "first" -> 1 [] quarter_word = "second" -> 2
                         [] quarter_word = "third" -> 3 [] quarter_word = "fourth" -> 4
                         [] quarter_word = "last" -> 4 [] OTHER -> 2
        year_int == ParseNat(match[3])
        month == IF match[2] = "quarter" THEN (quarter_num - 1) * 3 + 2
                 ELSE IF quarter_num <= 2 THEN 3 ELSE 9
    IN  [year |-> year_int, quarter |-> quarter_num,
         period |-> year_int * 60 + (month - 1) * 5,
         precision |-> "quarter", sort_key |-> year_int * 10 + quarter_num]

parse_century(match) ==
    LET century == ParseNat(match[1])
        year == (century - 1) * 100 + 50
    IN  [year |-> year, century |-> century, period |-> year * 60,
         precision |-> "century", sort_key |-> year]

\* match is the tuple of the pattern's two groups: match.lower() raises
parse_historical_period(match) == NoDate

RelativeDate(year) ==
    [year |-> year, period |-> year * 60, precision |-> "relative", sort_key |-> year]

parse_years_ago(match, current_year) == RelativeDate(current_year - ParseNat(match))

parse_relative_time(match, current_year) ==
    LET time_word == Lower(match)
    IN  RelativeDate(CASE time_word \in {"recently", "lately", "yesterday"} -> current_year - 1
                       [] time_word = "tomorrow" -> current_year + 1
                       [] OTHER -> current_year)

\* (pattern, date_type, parser) of date_patterns, in order
date_patterns ==
    <<"year", "date", "iso_date", "month_year", "short_month_year", "period", "decade",
      "quarter", "century", "historical", "years_ago", "relative_time">>

\* the pattern of the entry of date_patterns, with re.IGNORECASE, at i
MatchDatePattern(pat, s, i) ==
    CASE pat = "year" -> Re_year(s, i)
      [] pat = "date" -> Re_date(s, i)
      [] pat = "iso_date" -> Re_iso(s, i)
      [] pat = "month_year" -> Re_month_year(s, i, TRUE)
      [] pat = "short_month_year" -> Re_short_month_year(s, i, TRUE)
      [] pat = "period" -> Re_period(s, i, TRUE)
      [] pat = "decade" -> Re_decade(s, i, TRUE)
      [] pat = "quarter" -> Re_quarter(s, i, TRUE)
      [] pat = "century" -> Re_century(s, i, TRUE)
      [] pat = "historical" -> Re_historical(s, i, TRUE)
      [] pat = "years_ago" -> Re_years_ago(s, i, TRUE)
      [] pat = "relative_time" -> Re_relative_time(s, i, TRUE)

\* parser(match) of the pattern; current_year is datetime.now().year
ParseDate(pat, match, current_year) ==
    CASE pat = "year" -> parse_year(match[1])
      [] pat = "date" -> parse_full_date(match[1])
      [] pat = "iso_date" -> parse_iso_date(match[1])
      [] pat = "month_year" -> parse_month_year(match)
      [] pat = "short_month_year" -> parse_short_month_year(match)
      [] pat = "period" -> parse_relative_period(match)
      [] pat = "decade" -> parse_decade(match[1])
      [] pat = "quarter" -> parse_quarter(match)
      [] pat = "century" -> parse_century(match)
      [] pat = "historical" -> parse_historical_period(match)
      [] pat = "years_ago" -> parse_years_ago(match[1], current_year)
      [] pat = "relative_time" -> parse_relative_time(match[1], current_year)

\* re.sub(r'[^\w]', '', word)
WordClean(word) ==
    LET keep == SelectSeq(Indices(Len(word)), LAMBDA j : IsWordChar(CharAt(word, j)))
    IN  Join([k \in 1..Len(keep) |-> CharAt(word, keep[k])], "")

TitleStopWords ==
    {"this", "that", "these", "those", "with", "from", "they", "were", "have", "been"}

\* text[:57] + "..." if len(text) > 60 else text
Shortened(text) == IF Len(text) > 60 THEN Upto(text, 57) \o "..." ELSE text

\* important_words: the cleaned words longer than three characters that are
\* not stop words
ImportantWords(sentence_clean) ==
    Local(Words(sentence_clean),
          LAMBDA words :
              SelectSeq([k \in 1..Len(words) |-> WordClean(words[k])],
                        LAMBDA w : Len(w) > 3 /\ Lower(w) \notin TitleStopWords))

extract_event_title(sentence) ==
    Local(ImportantWords(Sub(LAMBDA t, j : Re_month_year(t, j, TRUE), Sub(Re_year, sentence))),
          LAMBDA important_words :
              IF Len(important_words) > 0
              THEN Shortened(Join(Slice(important_words, 0, 6), " "))
              ELSE Shortened(sentence))

classify_event_type(sentence) ==
    LET sentence_lower == Lower(sentence)
    IN  IF AnyIn(sentence_lower, <<"invented", "developed", "created", "launched",
                                   "released", "introduced">>) THEN "innovation"
        ELSE IF AnyIn(sentence_lower, <<"discovered", "found", "identified", "observed",
                                        "detected">>) THEN "discovery"
        ELSE IF AnyIn(sentence_lower, <<"founded", "established", "company", "business",
                                        "corporation", "startup">>) THEN "business"
        ELSE IF AnyIn(sentence_lower, <<"war", "battle", "revolution", "independence",
                                        "treaty", "peace">>) THEN "historical"
        ELSE IF AnyIn(sentence_lower, <<"research", "study", "experiment", "theory",
                                        "hypothesis", "published">>) THEN "scientific"
        ELSE IF AnyIn(sentence_lower, <<"born", "died", "married", "graduated",
                                        "appointed", "elected">>) THEN "personal"
        ELSE "general"

important_keywords ==
    <<"first", "invented", "discovered", "revolutionary", "breakthrough", "significant",
      "major", "important", "critical", "landmark", "historic", "unprecedented",
      "groundbreaking", "pioneering">>

calculate_event_importance(sentence) ==
    LET sentence_lower == Lower(sentence)
        boost == 2 * Cardinality({k \in DOMAIN important_keywords :
                                     Contains(sentence_lower, important_keywords[k])})
        numbers == IF \E j \in 1..Len(sentence) : IsDigit(CharAt(sentence, j)) THEN 1 ELSE 0
    IN  Min(1 + Min(Len(sentence) \div 50, 3) + boost + numbers, 10)

get_event_icon(event_type) ==
    CASE event_type = "innovation" -> "U+1F4A1"
      [] event_type = "discovery" -> "U+1F50D"
      [] event_type = "business" -> "U+1F3E2"
      [] event_type = "historical" -> "U+1F3DB U+FE0F"
      [] event_type = "scientific" -> "U+1F52C"
      [] event_type = "personal" -> "U+1F464"
      [] OTHER -> "U+1F4C5"

\* the event (without its id) made of a sentence, a match and its parsed date
Event(sentence, match, parsed_date) ==
    [title |-> extract_event_title(sentence),
     description |-> Strip(sentence),
     date_raw |-> Join(match, " "),
     date_parsed |-> parsed_date,
     period |-> parsed_date.period,
     precision |-> parsed_date.precision,
     type |-> classify_event_type(sentence),
     importance |-> calculate_event_importance(sentence),
     icon |-> get_event_icon(classify_event_type(sentence))]

\* the event of the first match whose parsed date is not None, NoDate when
\* there is none; dates[j] is the parsed date of matches[j]
FirstDated(sentence, matches, dates) ==
    LET ok == {j \in 1..Len(dates) : dates[j] # NoDate}
    IN  IF ok = {} THEN NoDate
        ELSE Event(sentence, matches[Least(ok)], dates[Least(ok)])

\* parser(match) for each match of the pattern
ParsedDates(pat, matches, current_year) ==
    [j \in 1..Len(matches) |-> ParseDate(pat, matches[j], current_year)]

\* the first match of the pattern whose parser returns a date: the event made
\* of it (without its id), NoDate when there is none
PatternEvent(sentence, pat, current_year) ==
    Local(FindAll(LAMBDA t, j : MatchDatePattern(pat, t, j), sentence),
          LAMBDA matches :
              FirstDated(sentence, matches, ParsedDates(pat, matches, current_year)))

\* the events of one sentence, one per pattern at most, in the patterns' order
SentenceEvents(sentence, current_year) ==
    IF Len(Strip(sentence)) < 10 THEN <<>>
    ELSE SelectSeq([k \in 1..Len(date_patterns) |->
                       PatternEvent(sentence, date_patterns[k], current_year)],
                   LAMBDA e : e # NoDate)

RECURSIVE AllEvents(_, _, _)
AllEvents(sentences, k, current_year) ==
    IF k > Len(sentences) THEN <<>>
    ELSE SentenceEvents(sentences[k], current_year) \o AllEvents(sentences, k + 1, current_year)

\* the words of a title, lower-cased, as a set
TitleWords(title) == Range(Words(Lower(title)))

events_similar(event1, event2) ==
    LET title1_words == TitleWords(event1.title)
        title2_words == TitleWords(event2.title)
        overlap == Cardinality(title1_words \cap title2_words)
        min_length == Min(Cardinality(title1_words), Cardinality(title2_words))
    IN  IF title1_words = {} \/ title2_words = {} THEN FALSE
        ELSE 10 * overlap > 6 * min_length

\* abs(a - b) < 0.1 on periods
PeriodsClose(a, b) == (IF a >= b THEN a - b ELSE b - a) < 6

RemoveAt(seq, j) == SubSeq(seq, 1, j - 1) \o SubSeq(seq, j + 1, Len(seq))

RECURSIVE DedupEvents(_, _, _)
DedupEvents(events, k, unique_events) ==
    IF k > Len(events) THEN unique_events
    ELSE LET event == events[k]
             dup == {j \in 1..Len(unique_events) :
                        \/ events_similar(event, unique_events[j])
                        \/ PeriodsClose(event.date_parsed.period,
                                        unique_events[j].date_parsed.period)}
         IN  IF dup = {} THEN DedupEvents(events, k + 1, Append(unique_events, event))
             ELSE IF event.importance > unique_events[Least(dup)].importance
             THEN DedupEvents(events, k + 1,
                              Append(RemoveAt(unique_events, Least(dup)), event))
             ELSE DedupEvents(events, k + 1, unique_events)

remove_duplicate_events(events) == DedupEvents(events, 1, <<>>)

\* the events with their ids, event_0, event_1, ... in the order found
NumberedEvents(found) ==
    [k \in 1..Len(found) |-> ("id" :> ("event_" \o IntStr(k - 1))) @@ found[k]]

extract_timeline_events_enhanced(content, current_year) ==
    remove_duplicate_events(
        NumberedEvents(AllEvents(extract_sentences(content), 1, current_year)))

RECURSIVE InsertByKey(_, _)
\* e placed after the elements whose key is not greater (a stable sort's step)
InsertByKey(sorted, e) ==
    IF Len(sorted) = 0 THEN <<e>>
    ELSE IF sorted[Len(sorted)].date_parsed.sort_key <= e.date_parsed.sort_key
    THEN Append(sorted, e)
    ELSE Append(InsertByKey(SubSeq(sorted, 1, Len(sorted) - 1), e), sorted[Len(sorted)])

RECURSIVE SortFrom(_, _, _)
SortFrom(events, k, sorted) ==
    IF k > Len(events) THEN sorted
    ELSE SortFrom(events, k + 1, InsertByKey(sorted, events[k]))

\* the events left as extracted
events_unsorted(events) == events

\* sorted(events, key=lambda x: x['date_parsed']['sort_key'])
sort_events_chronologically(events) == SortFrom(events, 1, <<>>)

calculate_timeline_span(events) ==
    IF Len(events) = 0 THEN "No timeline"
    ELSE LET span_years == events[Len(events)].date_parsed.year - events[1].date_parsed.year
         IN  IF span_years = 0 THEN "Single year"
             ELSE IF span_years < 10 THEN IntStr(span_years) \o " years"
             ELSE IF span_years < 100 THEN IntStr(span_years \div 10) \o " decades"
             ELSE IntStr(span_years \div 100) \o " centuries"

\* zoom_min and zoom_max (milliseconds) are written as their decimals
create_timeline_config(events) ==
    IF Len(events) = 0 THEN EmptyDict
    ELSE [orientation |-> "horizontal", show_current_time |-> FALSE,
          zoom_min |-> "31536000000", zoom_max |-> "3153600000000",
          stack |-> TRUE, margin |-> [item |-> 10, axis |-> 20],
          editable |-> FALSE, selectable |-> TRUE, multiselect |-> FALSE,
          tooltip |-> [followMouse |-> TRUE, overflowMethod |-> "cap"]]

\* process without its test "if not events": a timeline of the events, even
\* of none
Timeline_result_unguarded(self, events) ==
    [mode |-> self.mode_name,
     content |-> [events |-> sort_events_chronologically(events)],
     metadata |-> [event_count |-> Len(events)],
     css_classes |-> <<"timeline", "chronological", "interactive">>,
     javascript_code |-> "initializeTimeline",
     frontend_config |-> NoneMap]

\* the Result of TimelineRepresentation.process built from the extracted events
Timeline_result(self, events) ==
    IF Len(events) = 0 THEN get_error_result(self, "No temporal events found in content")
    ELSE LET sorted_events == sort_events_chronologically(events)
             timeline_span == calculate_timeline_span(sorted_events)
         IN  [mode |-> self.mode_name,
              content |-> [events |-> sorted_events,
                           timeline_config |-> create_timeline_config(sorted_events),
                           stats |-> [event_count |-> Len(sorted_events),
                                      timeline_span |-> timeline_span,
                                      start_period |-> sorted_events[1].period,
                                      end_period |-> sorted_events[Len(sorted_events)].period]],
              metadata |-> [event_count |-> Len(sorted_events),
                            timeline_span |-> timeline_span,
                            complexity |-> IF Len(sorted_events) > 10 THEN "high"
                                           ELSE IF Len(sorted_events) > 5 THEN "medium"
                                           ELSE "low"],
              css_classes |-> <<"timeline", "chronological", "interactive">>,
              javascript_code |-> "initializeTimeline",
              frontend_config |-> [container_id |-> "timeline-container",
                                   enable_zoom |-> TRUE, enable_navigation |-> TRUE,
                                   show_periods |-> TRUE]]

(***************************************************************************)
(* representations/knowledge_graph.py: KnowledgeGraphRepresentation         *)
(***************************************************************************)
\* the keyword lists of classify_entity_enhanced, in the dicts' order
EntityKeywordClasses ==
    <<[type |-> "technology_ai",
       keywords |-> <<"artificial", "intelligence", "machine", "learning", "neural", "deep">>],
      [type |-> "technology_computing",
       keywords |-> <<"computer", "cpu", "gpu", "quantum", "cloud", "server">>],
      [type |-> "technology_software",
       keywords |-> <<"application", "program", "software", "framework", "library">>],
      [type |-> "technology_data",
       keywords |-> <<"database", "data", "analytics", "big data", "dataset">>],
      [type |-> "technology_web",
       keywords |-> <<"website", "web", "internet", "html", "css", "javascript">>],
      [type |-> "technology_mobile",
       keywords |-> <<"mobile", "app", "android", "ios", "smartphone">>],
      [type |-> "science_physics",
       keywords |-> <<"atom", "electron", "photon", "quantum", "particle", "energy">>],
      [type |-> "science_biology",
       keywords |-> <<"cell", "dna", "protein", "gene", "organism", "species">>],
      [type |-> "science_chemistry",
       keywords |-> <<"molecule", "compound", "reaction", "element", "chemical">>],
      [type |-> "science_mathematics",
       keywords |-> <<"equation", "algorithm", "formula", "calculation", "number">>],
      [type |-> "organization",
       keywords |-> <<"company", "corporation", "business", "organization", "enterprise",
                      "firm">>]>>

classify_entity_enhanced(entity, content) ==
    LET entity_lower == Lower(entity)
        context_lower == Lower(content)
        hit == {k \in DOMAIN EntityKeywordClasses :
                    AnyIn(entity_lower, EntityKeywordClasses[k].keywords)}
    IN  IF hit # {} THEN EntityKeywordClasses[Least(hit)].type
        ELSE IF IsUpper(CharAt(entity, 1))
                /\ AnyIn(context_lower,
                         <<"founder", "ceo", "scientist", "researcher", "inventor">>)
        THEN "person"
        ELSE IF AnyIn(context_lower,
                      <<"city", "country", "state", "region", "area", "location">>)
        THEN "location"
        ELSE IF AnyIn(entity_lower,
                      <<"process", "method", "technique", "approach", "procedure",
                        "strategy">>)
        THEN "process"
        ELSE "concept"

importance_indicators ==
    <<"important", "key", "main", "primary", "central", "core", "fundamental",
      "essential", "critical", "significant", "major", "crucial">>

\* the positions where w stands as a whole word (\bw\b)
WordOccurrences(s, w) ==
    {j \in Occurrences(s, w, 1) : ~WordAt(s, j - 1) /\ ~WordAt(s, j + Len(w))}

\* re.search(r'\ba\b.*?\bb\b', s): a whole word a and, after it on the same
\* line, a whole word b
FollowsOnLine(s, a, b) ==
    \E i \in WordOccurrences(s, a) : \E j \in WordOccurrences(s, b) :
        /\ j >= i + Len(a)
        /\ \A k \in (i + Len(a))..(j - 1) : CharAt(s, k) # "\n"

calculate_entity_importance(entity, content) ==
    LET content_lower == Lower(content)
        entity_lower == Lower(entity)
        frequency == Count(content_lower, entity_lower)
        context_boost ==
            2 * Cardinality({k \in DOMAIN importance_indicators :
                                \/ FollowsOnLine(content_lower, importance_indicators[k],
                                                 entity_lower)
                                \/ FollowsOnLine(content_lower, entity_lower,
                                                 importance_indicators[k])})
        first_occurrence == Find(content_lower, entity_lower)
        \* int(max(0, 3 - (first_occurrence / len(content_lower)) * 3))
        position_boost ==
            Max(0, (3 * Len(content_lower) - 3 * first_occurrence) \div Len(content_lower))
    IN  frequency + context_boost + position_boost

generate_entity_description(entity, content) ==
    LET relevant_sentences ==
            SelectSeq(extract_sentences(content),
                      LAMBDA s : Contains(Lower(s), Lower(entity)))
    IN  IF Len(relevant_sentences) > 0
        THEN (IF Len(relevant_sentences[1]) > 100
              THEN Upto(relevant_sentences[1], 97) \o "..."
              ELSE relevant_sentences[1])
        ELSE "Concept: " \o entity

get_entity_color(entity_type) ==
    CASE entity_type = "technology_ai" -> "#3B82F6"
      [] entity_type = "technology_computing" -> "#6366F1"
      [] entity_type = "technology_software" -> "#8B5CF6"
      [] entity_type = "technology_data" -> "#06B6D4"
      [] entity_type = "technology_web" -> "#10B981"
      [] entity_type = "technology_mobile" -> "#F59E0B"
      [] entity_type = "science_physics" -> "#EF4444"
      [] entity_type = "science_biology" -> "#84CC16"
      [] entity_type = "science_chemistry" -> "#F97316"
      [] entity_type = "science_mathematics" -> "#EC4899"
      [] entity_type = "organization" -> "#6B7280"
      [] entity_type = "person" -> "#DC2626"
      [] entity_type = "location" -> "#059669"
      [] entity_type = "process" -> "#7C3AED"
      [] OTHER -> "#4B5563"

RECURSIVE InsertByImportance(_, _)
\* e placed after the elements that are not less important (stable, descending)
InsertByImportance(sorted, e) ==
    IF Len(sorted) = 0 THEN <<e>>
    ELSE IF sorted[Len(sorted)].importance >= e.importance THEN Append(sorted, e)
    ELSE Append(InsertByImportance(SubSeq(sorted, 1, Len(sorted) - 1), e),
                sorted[Len(sorted)])

RECURSIVE SortByImportance(_, _, _)
SortByImportance(entities, k, sorted) ==
    IF k > Len(entities) THEN sorted
    ELSE SortByImportance(entities, k + 1, InsertByImportance(sorted, entities[k]))

\* the matches of the four patterns, in the order they are added to all_entities
EntityMatches(content) ==
    Firsts(FindAll(Re_proper_nouns, content)
           \o FindAll(Re_technical_terms, content)
           \o FindAll(Re_concepts, content)
           \o FindAll(Re_entities_with_determiners, content))

\* the dictionary appended for entity_name, the i-th of all_entities
Entity(i, entity_name, content) ==
    Local(classify_entity_enhanced(entity_name, content),
          LAMBDA entity_type :
              Local(calculate_entity_importance(entity_name, content),
                    LAMBDA importance :
                        [id |-> "node_" \o IntStr(i),
                         name |-> entity_name,
                         type |-> entity_type,
                         importance |-> importance,
                         description |-> generate_entity_description(entity_name, content),
                         color |-> get_entity_color(entity_type),
                         size |-> Min(Max(10, importance * 5), 30)]))

\* the entities of the names of all_entities that have three characters or more
EntitiesOf(all_entities, content) ==
    Local(SelectSeq(Indices(Len(all_entities)), LAMBDA i : Len(all_entities[i]) >= 3),
          LAMBDA kept :
              [k \in 1..Len(kept) |-> Entity(kept[k] - 1, all_entities[kept[k]], content)])

\* entities[:20]
EntityLimit == 20

\* seed: the process's hash seed, which fixes the order all_entities is iterated in
extract_entities_enhanced(content, seed) ==
    Slice(SortByImportance(EntitiesOf(SetOrder(EntityMatches(content), seed), content),
                           1, <<>>),
          0, EntityLimit)

\* KnowledgeGraphRepresentation.words_overlap
words_overlap(text1, text2) == Range(Words(text1)) \cap Range(Words(text2)) # {}

\* the first entity whose name is name_lower, else the first whose name
\* contains it, is contained in it or shares a word with it, else None
BestMatch(entities, name_lower, exact) ==
    IF exact # {} THEN entities[Least(exact)]
    ELSE IF \E k \in DOMAIN entities :
                \/ Contains(Lower(entities[k].name), name_lower)
                \/ Contains(name_lower, Lower(entities[k].name))
                \/ words_overlap(name_lower, Lower(entities[k].name))
    THEN entities[Least({k \in DOMAIN entities :
                            \/ Contains(Lower(entities[k].name), name_lower)
                            \/ Contains(name_lower, Lower(entities[k].name))
                            \/ words_overlap(name_lower, Lower(entities[k].name))})]
    ELSE NoneMap

\* KnowledgeGraphRepresentation.find_best_entity_match: the entity, or None
find_best_entity_match(entities, name) ==
    BestMatch(entities, Strip(Lower(name)),
              {k \in DOMAIN entities : Lower(entities[k].name) = Strip(Lower(name))})

\* int(max(0, 3 - (distance / 100))) for the positions content.find gave, 0
\* when one of them is -1
ProximityBoost(source_pos, target_pos) ==
    IF source_pos = -1 \/ target_pos = -1 THEN 0
    ELSE IF source_pos = target_pos THEN 3
    ELSE IF source_pos > target_pos THEN Max(0, (300 - (source_pos - target_pos)) \div 100)
    ELSE Max(0, (300 - (target_pos - source_pos)) \div 100)

\* KnowledgeGraphRepresentation.calculate_relationship_strength
calculate_relationship_strength(source, target, content) ==
    Max(1, Len(SelectSeq(extract_sentences(content),
                         LAMBDA sentence : /\ Contains(Lower(sentence), Lower(source))
                                           /\ Contains(Lower(sentence), Lower(target))))
           + ProximityBoost(Find(Lower(content), Lower(source)),
                            Find(Lower(content), Lower(target))))

get_relationship_color(rel_type) ==
    CASE rel_type = "is_a" -> "#3B82F6"
      [] rel_type = "has" -> "#10B981"
      [] rel_type = "uses" -> "#F59E0B"
      [] rel_type = "creates" -> "#EF4444"
      [] rel_type = "enables" -> "#8B5CF6"
      [] rel_type = "requires" -> "#EC4899"
      [] rel_type = "implements" -> "#06B6D4"
      [] rel_type = "extends" -> "#84CC16"
      [] rel_type = "interacts_with" -> "#F97316"
      [] rel_type = "processes" -> "#6366F1"
      [] rel_type = "stores" -> "#059669"
      [] rel_type = "connects_to" -> "#DC2626"
      [] rel_type = "related_to" -> "#6B7280"
      [] rel_type = "alternative_to" -> "#7C3AED"
      [] OTHER -> "#6B7280"

\* relationships.append({...}) without the test that the two entities differ
Appended_unchecked(rel_id, relationships, source_entity, target_entity, relationship_strength) ==
    IF source_entity # NoneMap /\ target_entity # NoneMap
    THEN Append(relationships,
                [id |-> "edge_" \o IntStr(rel_id) \o "_" \o IntStr(Len(relationships)),
                 from |-> source_entity.id,
                 to |-> target_entity.id,
                 label |-> Replace(relationship_patterns[rel_id + 1].type, "_", " "),
                 relationship |-> relationship_patterns[rel_id + 1].type,
                 strength |-> relationship_strength,
                 type |-> "semantic",
                 color |-> get_relationship_color(relationship_patterns[rel_id + 1].type),
                 width |-> Min(Max(1, relationship_strength), 4)])
    ELSE relationships

\* relationships.append({...}) when both entities are found and differ
Appended(rel_id, relationships, source_entity, target_entity, relationship_strength) ==
    IF source_entity # NoneMap /\ target_entity # NoneMap
       /\ source_entity.id # target_entity.id
    THEN Append(relationships,
                [id |-> "edge_" \o IntStr(rel_id) \o "_" \o IntStr(Len(relationships)),
                 from |-> source_entity.id,
                 to |-> target_entity.id,
                 label |-> Replace(relationship_patterns[rel_id + 1].type, "_", " "),
                 relationship |-> relationship_patterns[rel_id + 1].type,
                 strength |-> relationship_strength,
                 type |-> "semantic",
                 color |-> get_relationship_color(relationship_patterns[rel_id + 1].type),
                 width |-> Min(Max(1, relationship_strength), 4)])
    ELSE relationships

RECURSIVE AddRelationships(_, _, _, _, _, _)
\* the inner loop of extract_relationships_enhanced over the matches of one pattern
AddRelationships(entities, content, rel_id, matches, m, relationships) ==
    IF m > Len(matches) THEN relationships
    ELSE AddRelationships(
             entities, content, rel_id, matches, m + 1,
             Appended(rel_id, relationships,
                      find_best_entity_match(entities, Strip(matches[m][1])),
                      find_best_entity_match(entities, Strip(matches[m][2])),
                      calculate_relationship_strength(Strip(matches[m][1]),
                                                      Strip(matches[m][2]), content)))

RECURSIVE RelationshipsFrom(_, _, _, _)
RelationshipsFrom(entities, content, rel_id, relationships) ==
    IF rel_id >= Len(relationship_patterns) THEN relationships
    ELSE RelationshipsFrom(
             entities, content, rel_id + 1,
             AddRelationships(entities, content, rel_id,
                              FindAll(LAMBDA t, j :
                                          Re_relationship(
                                              t, j, relationship_patterns[rel_id + 1].verbs,
                                              relationship_patterns[rel_id + 1].type = "is_a"),
                                      content),
                              1, relationships))

extract_relationships_enhanced(entities, content) ==
    RelationshipsFrom(entities, content, 0, <<>>)

\* format_for_visjs: nodes, edges
format_for_visjs(entities, relationships) ==
    [nodes |->
        [k \in DOMAIN entities |->
            [id |-> entities[k].id, label |-> entities[k].name,
             title |-> entities[k].description, group |-> entities[k].type,
             size |-> entities[k].size,
             color |-> [background |-> entities[k].color, border |-> "#2D3748",
                        highlight |-> [background |-> "#FBBF24", border |-> "#92400E"]],
             font |-> [size |-> 12, color |-> "#1F2937"],
             physics |-> TRUE, value |-> entities[k].importance]],
     edges |->
        [k \in DOMAIN relationships |->
            [id |-> relationships[k].id, from |-> relationships[k].from,
             to |-> relationships[k].to, label |-> relationships[k].label,
             title |-> relationships[k].relationship \o ": " \o relationships[k].label,
             width |-> relationships[k].width,
             color |-> [color |-> relationships[k].color, highlight |-> "#F59E0B"],
             arrows |-> [to |-> [enabled |-> TRUE, scaleFactor |-> "0.8"]],
             smooth |-> [enabled |-> TRUE, type |-> "continuous"],
             physics |-> TRUE]]]

calculate_complexity(node_count, edge_count) ==
    IF node_count + edge_count < 10 THEN "low"
    ELSE IF node_count + edge_count < 25 THEN "medium"
    ELSE "high"

\* the Result of KnowledgeGraphRepresentation.process from its two extractions
KnowledgeGraph_result(self, entities, relationships) ==
    LET graph_data == format_for_visjs(entities, relationships)
        node_count == Len(graph_data.nodes)
        edge_count == Len(graph_data.edges)
        complexity == calculate_complexity(node_count, edge_count)
    IN  [mode |-> self.mode_name,
         content |-> [graph_data |-> graph_data, entities |-> entities,
                      relationships |-> relationships,
                      stats |-> [node_count |-> node_count, edge_count |-> edge_count,
                                 complexity |-> complexity]],
         metadata |-> [node_count |-> node_count, edge_count |-> edge_count,
                       complexity |-> complexity, processing_method |-> "enhanced_nlp"],
         css_classes |-> <<"knowledge-graph", "interactive-viz">>,
         javascript_code |-> "initializeKnowledgeGraph",
         frontend_config |-> [container_id |-> "knowledge-graph", auto_resize |-> TRUE,
                              physics_enabled |-> TRUE, interaction_enabled |-> TRUE]]


(***************************************************************************)
(* CollapsibleConceptsRepresentation                                       *)
(* (representations/collapsible_concepts.py)                               *)
(***************************************************************************)
\* \s* : the position after the run of whitespace at p, if any
SpacesOpt(s, p) == IF p > 0 THEN RunEnd(s, p, SpaceChars) + 1 ELSE 0

ToUpperChar(c) ==
    IF c \in LowerLetters
    THEN CHOOSE u \in UpperLetters : ToLowerChar(u) = c
    ELSE c

SentenceStarters ==
    <<"The", "A", "An", "This", "That", "These", "Those", "In", "On", "At", "For", "With",
      "By">>

\* re.sub(r'^(The|A|An|...|By)\s+', '', sentence, flags=re.IGNORECASE)
WithoutStarter(sentence) ==
    LET found == {k \in DOMAIN SentenceStarters :
                      Spaces(sentence, Lit(sentence, 1, SentenceStarters[k], TRUE)) > 0}
    IN  IF found = {} THEN sentence
        ELSE SubSeq(sentence,
                    Spaces(sentence, Lit(sentence, 1, SentenceStarters[Least(found)], TRUE)),
                    Len(sentence))

SubjectVerbs ==
    <<"is", "are", "was", "were", "can", "will", "should", "could", "would", "has", "have",
      "represent", "mean">>

\* the positions after whitespace where one of the verbs starts
VerbPositions(sentence) ==
    {v \in 3..Len(sentence) :
        /\ IsSpaceChar(CharAt(sentence, v - 1))
        /\ \E k \in DOMAIN SubjectVerbs : LitAt(sentence, v, SubjectVerbs[k], TRUE)}

\* the length of the shortest subject before the whitespace that leads to
\* the verb at v: up to the first whitespace of the run, one character at least
SubjectLen(sentence, v) ==
    Max(1, Greatest({j \in 0..(v - 1) : j = 0 \/ ~IsSpaceChar(CharAt(sentence, j))}))

\* group 1 of re.match(r'^([^,\.]{1,50}?)\s+(?:is|are|...|means?)', sentence,
\* re.IGNORECASE), stripped; "" when there is no match
MatchedSubject(sentence) ==
    LET verbs == VerbPositions(sentence)
    IN  IF verbs = {} THEN ""
        ELSE Local(SubjectLen(sentence, Least(verbs)),
                   LAMBDA n :
                       IF n <= 50 /\ \A j \in 1..n : CharAt(sentence, j) \notin {",", "."}
                       THEN Strip(SubSeq(sentence, 1, n))
                       ELSE "")

TitlePunctuation == {",", ".", ";", ":", "!", "?"}

\* CollapsibleConceptsRepresentation.clean_title
clean_title(title) ==
    LET keep == NotInClass(title, 1, TitlePunctuation)
    IN  IF keep = {} THEN ""
        ELSE Strip(ToUpperChar(CharAt(title, 1)) \o SubSeq(title, 2, Greatest(keep)))

\* the first three to eight words, or the first fifty characters of the one word
FirstPhrase(sentence) ==
    Local(Words(sentence),
          LAMBDA words :
              IF Len(words) > 1
              THEN clean_title(Join(Slice(words, 0, Min(8, Max(3, Len(words) \div 3))), " "))
              ELSE clean_title(Upto(sentence, 50)))

\* the title from the sentence already without its starter
TitleOf(sentence) ==
    Local(MatchedSubject(sentence),
          LAMBDA title :
              IF Len(title) > 10 /\ Len(title) < 60 THEN clean_title(title)
              ELSE FirstPhrase(sentence))

\* CollapsibleConceptsRepresentation.extract_concept_title
extract_concept_title(sentence) == TitleOf(WithoutStarter(sentence))

tech_keywords ==
    <<"technology", "software", "hardware", "algorithm", "system", "computer", "digital",
      "internet", "network", "database", "programming", "code">>
process_keywords ==
    <<"process", "method", "procedure", "approach", "technique", "strategy", "workflow",
      "steps", "stages">>
definition_keywords ==
    <<"definition", "meaning", "refers to", "defined as", "means", "is the", "concept of">>
example_keywords ==
    <<"example", "instance", "case", "illustration", "demonstration", "for example">>
benefit_keywords ==
    <<"benefit", "advantage", "positive", "improvement", "enhancement", "value", "gain">>
challenge_keywords ==
    <<"challenge", "problem", "issue", "difficulty", "limitation", "drawback",
      "disadvantage">>

\* CollapsibleConceptsRepresentation.classify_concept_type
classify_concept_type(content) ==
    Local(Lower(content),
          LAMBDA content_lower :
              IF AnyIn(content_lower, tech_keywords) THEN "technology"
              ELSE IF AnyIn(content_lower, process_keywords) THEN "process"
              ELSE IF AnyIn(content_lower, definition_keywords) THEN "definition"
              ELSE IF AnyIn(content_lower, example_keywords) THEN "example"
              ELSE IF AnyIn(content_lower, benefit_keywords) THEN "benefit"
              ELSE IF AnyIn(content_lower, challenge_keywords) THEN "challenge"
              ELSE "general")

\* CollapsibleConceptsRepresentation.extract_main_concept_from_paragraph
extract_main_concept_from_paragraph(paragraph) ==
    Local(extract_sentences(paragraph),
          LAMBDA sentences :
              IF sentences = <<>>
              THEN [title |-> "Unknown Concept", content |-> paragraph, type |-> "general"]
              ELSE [title |-> extract_concept_title(Strip(sentences[1])),
                    content |-> Strip(paragraph),
                    type |-> classify_concept_type(paragraph)])

sub_concept_indicators ==
    <<"first", "second", "third", "finally", "additionally", "furthermore", "also",
      "moreover", "in addition", "another", "specifically", "for example", "such as",
      "including", "like", "particularly">>

\* r'^\s*\d+[\.\)]\s*': the position after the match, 0 when there is none
NumberedEnd(s) == SpacesOpt(s, OneOf(s, DigitsPlus(s, SpacesOpt(s, 1)), {".", ")"}))

\* r'^\s*[-\*\•]\s*' on ASCII text: the position after the match, 0 when
\* there is none
BulletEnd(s) == SpacesOpt(s, OneOf(s, SpacesOpt(s, 1), {"-", "*"}))

\* CollapsibleConceptsRepresentation.is_sub_concept
is_sub_concept(sentence) ==
    \/ NumberedEnd(sentence) > 0
    \/ BulletEnd(sentence) > 0
    \/ AnyIn(Lower(sentence), sub_concept_indicators)

\* re.sub(pattern, '', s) of a pattern anchored at the start, that ends before n
WithoutPrefix(s, n) == IF n > 0 THEN SubSeq(s, n, Len(s)) ELSE s

\* title[:47] + "..." if len(title) > 50
Truncated(title) == IF Len(title) > 50 THEN Upto(title, 47) \o "..." ELSE title

\* the sentence without its number
Unnumbered(sentence) == WithoutPrefix(sentence, NumberedEnd(sentence))

\* the sentence without its bullet
Unbulleted(sentence) == WithoutPrefix(sentence, BulletEnd(sentence))

\* CollapsibleConceptsRepresentation.extract_sub_concept_title
extract_sub_concept_title(sentence) ==
    Truncated(extract_concept_title(Unbulleted(Unnumbered(sentence))))

\* CollapsibleConceptsRepresentation.classify_sub_concept_type
classify_sub_concept_type(sentence) ==
    Local(Lower(sentence),
          LAMBDA sentence_lower :
              IF AnyIn(sentence_lower, <<"step", "stage", "phase">>) THEN "step"
              ELSE IF AnyIn(sentence_lower, <<"feature", "characteristic", "property">>)
              THEN "feature"
              ELSE IF AnyIn(sentence_lower, <<"example", "instance", "case">>) THEN "example"
              ELSE IF AnyIn(sentence_lower, <<"benefit", "advantage">>) THEN "benefit"
              ELSE IF AnyIn(sentence_lower, <<"requirement", "need", "prerequisite">>)
              THEN "requirement"
              ELSE "detail")

\* CollapsibleConceptsRepresentation.get_concept_icon
get_concept_icon(concept_type) ==
    CASE concept_type = "technology" -> "U+1F4BB"
      [] concept_type = "process" -> "U+2699 U+FE0F"
      [] concept_type = "definition" -> "U+1F4D6"
      [] concept_type = "example" -> "U+1F4A1"
      [] concept_type = "benefit" -> "U+2705"
      [] concept_type = "challenge" -> "U+26A0 U+FE0F"
      [] concept_type = "step" -> "U+1F4CB"
      [] concept_type = "feature" -> "U+1F527"
      [] concept_type = "requirement" -> "U+1F4CB"
      [] concept_type = "detail" -> "U+1F50D"
      [] OTHER -> "U+1F4DD"

\* the sub-concept of the i-th sentence (counted from 0) of the paragraph
SubConcept(main_title, i, sentence, sub_type) ==
    [id |-> main_title \o "_sub_" \o IntStr(i),
     title |-> extract_sub_concept_title(sentence),
     content |-> Strip(sentence),
     level |-> 2,
     type |-> sub_type,
     icon |-> get_concept_icon(sub_type),
     children |-> <<>>]

RECURSIVE SubConceptsFrom(_, _, _)
\* for i, sentence in enumerate(sentences[1:], 1): ...
SubConceptsFrom(sentences, main_title, k) ==
    IF k > Len(sentences) THEN <<>>
    ELSE (IF Len(Strip(sentences[k])) >= 20 /\ is_sub_concept(sentences[k])
          THEN <<SubConcept(main_title, k - 1, sentences[k],
                            classify_sub_concept_type(sentences[k]))>>
          ELSE <<>>)
         \o SubConceptsFrom(sentences, main_title, k + 1)

\* CollapsibleConceptsRepresentation.extract_sub_concepts
extract_sub_concepts(paragraph, main_concept) ==
    Slice(SubConceptsFrom(extract_sentences(paragraph), main_concept.title, 2), 0, 5)

\* the concept of the i-th paragraph (counted from 0), without its relationships
Concept(i, main_concept, sub_concepts) ==
    [id |-> "concept_" \o IntStr(i),
     title |-> main_concept.title,
     content |-> main_concept.content,
     level |-> 1,
     icon |-> get_concept_icon(main_concept.type),
     type |-> main_concept.type,
     expanded |-> (i = 0),
     children |-> sub_concepts]

\* r'\b[a-zA-Z]{3,}\b': a word of three letters or more and of letters only
Re_letters3(s, i) ==
    IF /\ Edge(s, i) > 0
       /\ i <= Len(s)
       /\ CharAt(s, i) \in Letters
       /\ RunEnd(s, i, Letters) - i + 1 >= 3
       /\ ~WordAt(s, RunEnd(s, i, Letters) + 1)
    THEN Whole(s, i, RunEnd(s, i, Letters) + 1)
    ELSE NoMatch

common_words ==
    {"the", "and", "or", "but", "in", "on", "at", "to", "for", "of", "with", "by", "from",
     "as", "is", "are", "was", "were", "be", "been", "have", "has", "had", "do", "does",
     "did", "will", "would", "could", "should", "may", "might", "can", "must", "this",
     "that", "these", "those"}

\* CollapsibleConceptsRepresentation.extract_keywords_from_concept: the first
\* five of the set of keywords, in the order the hash seed gives
extract_keywords_from_concept(concept, seed) ==
    Slice(SetOrder(SelectSeq(Firsts(FindAll(Re_letters3,
                                            Lower(concept.title \o " " \o concept.content))),
                             LAMBDA word : word \notin common_words),
                   seed),
          0, 5)

\* the keywords of every concept
ConceptKeywords(concepts, seed) ==
    [k \in DOMAIN concepts |-> Range(extract_keywords_from_concept(concepts[k], seed))]

\* concept['related_concepts']: the ids of the other concepts that share a
\* keyword with the k-th (concepts_are_related)
Related(concepts, keywords, k) ==
    Local(SelectSeq(Indices(Len(concepts)),
                    LAMBDA o : /\ concepts[k].id # concepts[o].id
                               /\ keywords[k] \cap keywords[o] # {}),
          LAMBDA others : [j \in DOMAIN others |-> concepts[others[j]].id])

\* CollapsibleConceptsRepresentation.add_concept_relationships
add_concept_relationships(concepts, seed) ==
    Local(ConceptKeywords(concepts, seed),
          LAMBDA keywords :
              [k \in DOMAIN concepts |->
                  [f \in DOMAIN concepts[k] \cup {"related_concepts"} |->
                      IF f = "related_concepts" THEN Related(concepts, keywords, k)
                      ELSE concepts[k][f]]])

\* the concept of the k-th paragraph
ParagraphConcept(paragraph, k) ==
    Local(extract_main_concept_from_paragraph(paragraph),
          LAMBDA main_concept :
              Concept(k - 1, main_concept, extract_sub_concepts(paragraph, main_concept)))

\* CollapsibleConceptsRepresentation.extract_hierarchical_concepts
extract_hierarchical_concepts(content, seed) ==
    Local(extract_paragraphs(content),
          LAMBDA paragraphs :
              add_concept_relationships(
                  [k \in DOMAIN paragraphs |-> ParagraphConcept(paragraphs[k], k)], seed))

RECURSIVE CountChildren(_, _)
CountChildren(concepts, k) ==
    IF k > Len(concepts) THEN 0
    ELSE Len(concepts[k].children) + CountChildren(concepts, k + 1)

\* CollapsibleConceptsRepresentation.count_total_concepts
count_total_concepts(concepts) == Len(concepts) + CountChildren(concepts, 1)

\* a plausible fault: the depth of the top level alone
calculate_max_depth_flat(concepts) == 1

\* CollapsibleConceptsRepresentation.calculate_max_depth
calculate_max_depth(concepts) ==
    IF \E k \in DOMAIN concepts : concepts[k].children # <<>> THEN 2 ELSE 1

\* CollapsibleConceptsRepresentation.assess_complexity
assess_complexity(total_concepts, max_depth) ==
    IF total_concepts > 15 \/ max_depth > 2 THEN "high"
    ELSE IF total_concepts > 8 \/ max_depth > 1 THEN "medium"
    ELSE "low"

\* the Result with the metrics
ConceptsResult(self, concepts, total_concepts, max_depth) ==
    [mode |-> self.mode_name,
     content |-> [concepts |-> concepts,
                  hierarchy_stats |-> [total_concepts |-> total_concepts,
                                       max_depth |-> max_depth,
                                       root_concepts |-> Len(concepts)]],
     metadata |-> [total_concepts |-> total_concepts,
                   max_depth |-> max_depth,
                   complexity |-> assess_complexity(total_concepts, max_depth),
                   interaction_type |-> "expandable"],
     css_classes |-> <<"collapsible-concepts", "hierarchical", "interactive">>,
     javascript_code |-> "initializeCollapsibleConcepts",
     frontend_config |-> [container_id |-> "collapsible-concepts",
                          auto_expand_first |-> TRUE, enable_search |-> TRUE,
                          animation_duration |-> 300]]

\* the Result of CollapsibleConceptsRepresentation.process built from the
\* concepts
CollapsibleConcepts_result(self, concepts) ==
    ConceptsResult(self, concepts, count_total_concepts(concepts),
                   calculate_max_depth(concepts))


(***************************************************************************)
(* SummaryRepresentation (representations/summary.py)                      *)
(***************************************************************************)
\* \w+
WordPlus(s, p) == IF p > 0 /\ WordAt(s, p) THEN RunEnd(s, p, WordChars) + 1 ELSE 0

CommonTechTerms ==
    <<"artificial intelligence", "machine learning", "deep learning", "neural network">>

\* r'\b(?:artificial intelligence|machine learning|deep learning|neural network)\b'
\* with re.IGNORECASE
Re_common_tech(s, i) == Whole(s, i, Edge(s, Alt(s, Edge(s, i), CommonTechTerms, TRUE)))

LeadVerbs == <<"is", "are", "was", "were", "can", "will", "should", "could">>

\* (?=\s+(?:is|are|was|were|can|will|should|could)) at p
VerbAhead(s, p) == p > 0 /\ Alt(s, Spaces(s, p), LeadVerbs, TRUE) > 0

\* the longest of three, two and one words that the verb follows
SubjectPick(s, i, e1, e2, e3) ==
    IF VerbAhead(s, e3) THEN Whole(s, i, e3)
    ELSE IF VerbAhead(s, e2) THEN Whole(s, i, e2)
    ELSE IF VerbAhead(s, e1) THEN Whole(s, i, e1)
    ELSE NoMatch

SubjectThird(s, i, e1, e2) == SubjectPick(s, i, e1, e2, WordPlus(s, Spaces(s, e2)))

SubjectSecond(s, i, e1) == SubjectThird(s, i, e1, WordPlus(s, Spaces(s, e1)))

\* r'\b\w+(?:\s+\w+){0,2}(?=\s+(?:is|are|was|were|can|will|should|could))\b'
\* with re.IGNORECASE
Re_subject_phrase(s, i) == SubjectSecond(s, i, WordPlus(s, Edge(s, i)))

\* r'\b[A-Z][a-z]+(?:\s+[A-Z][a-z]+)*\b' with re.IGNORECASE
Re_capitalized_any_case(s, i) == Re_capitalized(s, i, Letters, Letters)

\* BaseRepresentation.extract_key_phrases, max_phrases = 10
extract_key_phrases(content) ==
    Slice(Dedup(SelectSeq(Firsts(FindAll(Re_capitalized_any_case, content))
                          \o Firsts(FindAll(Re_common_tech, content))
                          \o Firsts(FindAll(Re_subject_phrase, content)),
                          LAMBDA match : Len(match) > 3)),
          0, 10)

\* the number of times t occurs in terms
Frequency(terms, t) == Len(SelectSeq(terms, LAMBDA x : x = t))

RECURSIVE ByFrequency(_, _, _)
\* sorted(term_frequency.items(), key=lambda x: x[1], reverse=True): the
\* terms of frequency f, then those of the lower ones, each in first-seen order
ByFrequency(distinct, terms, f) ==
    IF f = 0 THEN <<>>
    ELSE SelectSeq(distinct, LAMBDA t : Frequency(terms, t) = f)
         \o ByFrequency(distinct, terms, f - 1)

RECURSIVE TopicsFrom(_, _, _, _)
\* for term, freq in sorted_terms: ... topics.append(term)
TopicsFrom(sorted_terms, k, topics, max_topics) ==
    IF k > Len(sorted_terms) \/ Len(topics) >= max_topics THEN topics
    ELSE IF \E e \in DOMAIN topics :
                \/ Contains(Lower(topics[e]), Lower(sorted_terms[k]))
                \/ Contains(Lower(sorted_terms[k]), Lower(topics[e]))
    THEN TopicsFrom(sorted_terms, k + 1, topics, max_topics)
    ELSE TopicsFrom(sorted_terms, k + 1, Append(topics, sorted_terms[k]), max_topics)

\* the terms of more than three characters, stripped
CleanTerms(all_terms) ==
    SelectSeq([k \in DOMAIN all_terms |-> Strip(all_terms[k])], LAMBDA t : Len(t) > 3)

\* SummaryRepresentation.extract_main_topics
extract_main_topics(content, max_topics) ==
    Local(CleanTerms(extract_key_phrases(content)
                     \o Firsts(FindAll(Re_capitalized_phrase, content))),
          LAMBDA terms :
              TopicsFrom(ByFrequency(Dedup(terms), terms, Len(terms)), 1, <<>>, max_topics))

\* SummaryRepresentation.extract_main_topic
extract_main_topic(content) ==
    Local(extract_main_topics(content, 1),
          LAMBDA topics : IF topics # <<>> THEN topics[1] ELSE "General Information")

summary_importance_indicators ==
    <<"important", "key", "main", "primary", "essential", "critical", "significant",
      "major", "crucial", "fundamental", "core", "in summary", "to conclude", "overall",
      "therefore", "thus", "as a result", "consequently", "in conclusion">>

\* re.search(r'\d+(\.\d+)?%|\d+(\,\d{3})*(\.\d+)?', sentence): the second
\* alternative matches at every digit
HasStatistic(sentence) == \E j \in 1..Len(sentence) : IsDigit(CharAt(sentence, j))

definition_words == <<"is", "are", "means", "refers to", "defined as">>

\* .+\s+ ends before v: whitespace up to v, and before it a character that
\* is not a line feed
LedBy(s, v) ==
    \E q \in 1..(v - 2) :
        /\ CharAt(s, q) # "\n"
        /\ \A j \in (q + 1)..(v - 1) : IsSpaceChar(CharAt(s, j))

\* \s+.+ starts at e: whitespace from e on, and after it a character that is
\* not a line feed
TrailedBy(s, e) ==
    \E r \in (e + 1)..Len(s) :
        /\ CharAt(s, r) # "\n"
        /\ \A j \in e..(r - 1) : IsSpaceChar(CharAt(s, j))

\* any(re.search(r'.+\s+' + word + r'\s+.+', sentence, re.IGNORECASE) ...)
IsDefinition(sentence) ==
    \E k \in DOMAIN definition_words : \E v \in 3..Len(sentence) :
        /\ LitAt(sentence, v, definition_words[k], TRUE)
        /\ LedBy(sentence, v)
        /\ TrailedBy(sentence, v + Len(definition_words[k]))

RECURSIVE TopicSentences(_, _, _)
\* strategy 1: the first sentence of each paragraph
TopicSentences(paragraphs, k, key_points) ==
    IF k > Len(paragraphs) THEN key_points
    ELSE Local(extract_sentences(paragraphs[k]),
               LAMBDA paragraph_sentences :
                   IF /\ paragraph_sentences # <<>>
                      /\ Len(Strip(paragraph_sentences[1])) > 20
                      /\ \A p \in DOMAIN key_points :
                             key_points[p] # Strip(paragraph_sentences[1])
                   THEN TopicSentences(paragraphs, k + 1,
                                       Append(key_points, Strip(paragraph_sentences[1])))
                   ELSE TopicSentences(paragraphs, k + 1, key_points))

\* the test of strategy 2, 3 or 4 on the sentence
StrategyTakes(strategy, sentence) ==
    CASE strategy = 2 ->
            AnyIn(Lower(sentence), summary_importance_indicators) /\ Len(sentence) > 30
      [] strategy = 3 -> HasStatistic(sentence) /\ Len(sentence) > 25
      [] strategy = 4 -> IsDefinition(sentence) /\ Len(sentence) > 30

RECURSIVE StrategySentences(_, _, _, _)
\* strategies 2 to 4: for sentence in sentences: if ... and sentence not in
\* key_points: key_points.append(sentence.strip())
StrategySentences(strategy, sentences, k, key_points) ==
    IF k > Len(sentences) THEN key_points
    ELSE IF /\ StrategyTakes(strategy, sentences[k])
            /\ \A p \in DOMAIN key_points : key_points[p] # sentences[k]
    THEN StrategySentences(strategy, sentences, k + 1,
                           Append(key_points, Strip(sentences[k])))
    ELSE StrategySentences(strategy, sentences, k + 1, key_points)

\* the key points of the four strategies, before the duplicates are removed
AllKeyPoints(content, sentences, max_points) ==
    StrategySentences(
        4, sentences, 1,
        StrategySentences(
            3, sentences, 1,
            StrategySentences(
                2, sentences, 1,
                TopicSentences(Slice(extract_paragraphs(content), 0, max_points), 1, <<>>))))

\* a plausible fault: the points as they were found, without a limit
unique_key_points_unlimited(key_points, max_points) == key_points

\* for point in key_points: if point not in seen and len(unique_key_points) <
\* max_points: ...
unique_key_points(key_points, max_points) == Slice(Dedup(key_points), 0, max_points)

\* SummaryRepresentation.extract_key_points
extract_key_points(content, max_points) ==
    unique_key_points(AllKeyPoints(content, extract_sentences(content), max_points),
                      max_points)

\* max(key_points, key=lambda x: len(x.split())): the first of the points
\* with the most words
BestPoint(key_points) ==
    key_points[Least({k \in DOMAIN key_points :
                        \A j \in DOMAIN key_points :
                            Len(Words(key_points[j])) <= Len(Words(key_points[k]))})]

\* the best point, after the main topic when it does not name it
WithTopic(main_topic, best_point) ==
    IF main_topic # "" /\ ~Contains(Lower(best_point), Lower(main_topic))
    THEN "About " \o main_topic \o ": " \o best_point
    ELSE best_point

\* a plausible fault: nothing in place of the fixed text
TldrFallback_blank(content, long_sentences, words) ==
    IF long_sentences # <<>> THEN Strip(long_sentences[1])
    ELSE IF Len(words) > 20 THEN Join(Slice(words, 0, 20), " ") \o "..."
    ELSE ""

\* the first sentence of more than 50 characters, else the first 20 words,
\* else the fixed text
TldrFallback(content, long_sentences, words) ==
    IF long_sentences # <<>> THEN Strip(long_sentences[1])
    ELSE IF Len(words) > 20 THEN Join(Slice(words, 0, 20), " ") \o "..."
    ELSE "Summary not available for this content."

\* SummaryRepresentation.generate_tldr
generate_tldr(content, key_points) ==
    IF key_points # <<>>
    THEN WithTopic(extract_main_topic(content), BestPoint(key_points))
    ELSE TldrFallback(content,
                      SelectSeq(extract_sentences(content), LAMBDA s : Len(s) > 50),
                      Words(content))

strong_indicators ==
    <<"according to", "research shows", "studies indicate", "experts say", "it is proven",
      "evidence suggests", "data reveals", "findings show">>

\* the test of the second or the third loop of extract_important_quotes
QuoteTakes(loop, sentence) ==
    IF loop = 2 THEN AnyIn(Lower(sentence), strong_indicators) ELSE HasStatistic(sentence)

RECURSIVE QuotesFrom(_, _, _, _, _)
\* for sentence in sentences: if ... and len(quotes) < max_quotes and sentence
\* not in quotes: quotes.append(sentence)
QuotesFrom(loop, sentences, k, quotes, max_quotes) ==
    IF k > Len(sentences) THEN quotes
    ELSE IF /\ QuoteTakes(loop, sentences[k])
            /\ Len(quotes) < max_quotes
            /\ \A q \in DOMAIN quotes : quotes[q] # sentences[k]
    THEN QuotesFrom(loop, sentences, k + 1, Append(quotes, sentences[k]), max_quotes)
    ELSE QuotesFrom(loop, sentences, k + 1, quotes, max_quotes)

\* the quotes of the sentences
Quotes(sentences, max_quotes) ==
    Slice(QuotesFrom(3, sentences, 1,
                     QuotesFrom(2, sentences, 1,
                                Slice(SelectSeq(sentences,
                                                LAMBDA s : Contains(s, "\"") \/ Contains(s, "'")),
                                      0, max_quotes),
                                max_quotes),
                     max_quotes),
          0, max_quotes)

\* SummaryRepresentation.extract_important_quotes
extract_important_quotes(content, max_quotes) == Quotes(extract_sentences(content), max_quotes)

\* SummaryRepresentation.assess_summary_quality
assess_summary_quality(key_points, main_topics) ==
    IF Len(key_points) >= 4 /\ Len(main_topics) >= 3 THEN "high"
    ELSE IF Len(key_points) >= 2 /\ Len(main_topics) >= 2 THEN "medium"
    ELSE "low"

\* the key points and the TL;DR of the content
SummaryParts(content, key_points) ==
    [content |-> content,
     key_points |-> key_points,
     tldr |-> generate_tldr(content, key_points),
     main_topics |-> extract_main_topics(content, 5),
     important_quotes |-> extract_important_quotes(content, 3)]

\* the Result with the metrics; compression_ratio in hundredths
SummaryResult(self, parts, original_word_count, summary_word_count, compression_ratio) ==
    [mode |-> self.mode_name,
     content |-> [tldr |-> parts.tldr,
                  key_points |-> parts.key_points,
                  main_topics |-> parts.main_topics,
                  important_quotes |-> parts.important_quotes,
                  full_content |-> parts.content,
                  metrics |-> [original_words |-> original_word_count,
                               summary_words |-> summary_word_count,
                               compression_ratio |-> compression_ratio,
                               key_points_count |-> Len(parts.key_points)]],
     metadata |-> [compression_ratio |-> compression_ratio,
                   key_point_count |-> Len(parts.key_points),
                   main_topics_count |-> Len(parts.main_topics),
                   summary_quality |->
                       assess_summary_quality(parts.key_points, parts.main_topics)],
     css_classes |-> <<"summary", "condensed", "key-points">>,
     javascript_code |-> NoneStr,
     frontend_config |-> [enable_expand |-> TRUE, show_metrics |-> TRUE,
                          highlight_key_points |-> TRUE]]

\* the Result with the word counts
SummaryCounted(self, parts, original_word_count, summary_word_count) ==
    SummaryResult(self, parts, original_word_count, summary_word_count,
                  IF original_word_count > 0
                  THEN RoundHundredths(summary_word_count, original_word_count)
                  ELSE 0)

\* the Result of SummaryRepresentation.process built from its parts
Summary_result(self, parts) ==
    SummaryCounted(self, parts, calculate_word_count(parts.content),
                   calculate_word_count(Join(parts.key_points, " ") \o " " \o parts.tldr))


(***************************************************************************)
(* PuzzleBasedRepresentation (representations/puzzle_based.py)             *)
(***************************************************************************)
\* the j-th number the random module hands out during a call, below n
\* (randbelow(n)); draws is the run of numbers the generator repeats
Draw(draws, j, n) == draws[(j % Len(draws)) + 1] % n

PunctuationChars == {".", ",", "!", "?", ";", ":"}

\* word.strip('.,!?;:')
StripPunctuation(word) ==
    LET ink == NotInClass(word, 1, PunctuationChars)
    IN  IF ink = {} THEN "" ELSE SubSeq(word, Least(ink), Greatest(ink))

RECURSIVE Chunks(_, _)
\* the sentences from the i-th on in chunks of three, each '. '.join(chunk) + '.'
Chunks(sentences, i) ==
    IF i > Len(sentences) THEN <<>>
    ELSE <<Join(SubSeq(sentences, i, Min(i + 2, Len(sentences))), ". ") \o ".">>
         \o Chunks(sentences, i + 3)

\* a paragraph of more than 500 characters is cut at the first '. ' from its
\* middle on
SplitLong(para) ==
    IF Len(para) > 500 /\ Occurrences(para, ". ", (Len(para) \div 2) + 1) # {}
    THEN LET split_point == Least(Occurrences(para, ". ", (Len(para) \div 2) + 1))
         IN  <<SubSeq(para, 1, split_point), SubSeq(para, split_point + 2, Len(para))>>
    ELSE <<para>>

RECURSIVE SplitParagraphs(_, _)
SplitParagraphs(paragraphs, k) ==
    IF k > Len(paragraphs) THEN <<>>
    ELSE SplitLong(paragraphs[k]) \o SplitParagraphs(paragraphs, k + 1)

\* PuzzleBasedRepresentation.segment_content
segment_content(content) ==
    Local(extract_paragraphs(content),
          LAMBDA paragraphs :
              IF Len(paragraphs) < 3
              THEN Slice(Chunks(SelectSeq(extract_sentences(content),
                                          LAMBDA s : Len(s) > 20), 1),
                         0, 8)
              ELSE Slice(SplitParagraphs(Slice(paragraphs, 0, 6), 1), 0, 8))

SuffixEndings == <<"ing", "tion", "sion", "ment", "ness">>

\* r'\b[a-z]+(?:ing|tion|sion|ment|ness)\b': a run of lower-case letters
\* between two word boundaries that ends in one of the endings, with at least
\* one letter before it
Re_suffix_word(s, i) ==
    IF /\ Edge(s, i) > 0
       /\ i <= Len(s)
       /\ CharAt(s, i) \in LowerLetters
       /\ ~WordAt(s, RunEnd(s, i, LowerLetters) + 1)
       /\ \E k \in DOMAIN SuffixEndings :
              /\ RunEnd(s, i, LowerLetters) - i + 1 > Len(SuffixEndings[k])
              /\ EndsWith(SubSeq(s, i, RunEnd(s, i, LowerLetters)), SuffixEndings[k])
    THEN Whole(s, i, RunEnd(s, i, LowerLetters) + 1)
    ELSE NoMatch

\* PuzzleBasedRepresentation.extract_key_phrases, max_phrases = 5
Puzzle_extract_key_phrases(content, seed) ==
    Slice(SelectSeq(SetOrder(Firsts(FindAll(Re_capitalized_phrase, content))
                             \o Firsts(FindAll(Re_suffix_word, content)),
                             seed),
                    LAMBDA p : Len(p) > 3 /\ Len(p) < 30),
          0, 5)

distractors ==
    <<"Machine learning algorithm", "Quantum computing", "Artificial intelligence",
      "Data visualization", "Neural network", "Blockchain technology">>

RECURSIVE SampleFrom(_, _, _, _, _)
\* random.sample(pool, k) from its i-th pick on: a pick below the number of
\* elements left, whose place the last element left takes
SampleFrom(pool, k, i, draws, j) ==
    IF i >= k THEN <<>>
    ELSE LET n == Len(pool)
             pick == Draw(draws, j + i, n - i) + 1
         IN  <<pool[pick]>>
             \o SampleFrom([pool EXCEPT ![pick] = pool[n - i]], k, i + 1, draws, j)

RECURSIVE ShuffleFrom(_, _, _, _)
\* random.shuffle(x): for i from the last index down to 1, x[i] changes place
\* with x[randbelow(i + 1)]
ShuffleFrom(x, i, draws, j) ==
    IF i < 1 THEN x
    ELSE LET pick == Draw(draws, j + (Len(x) - 1 - i), i + 1) + 1
         IN  ShuffleFrom([x EXCEPT ![i + 1] = x[pick], ![pick] = x[i + 1]], i - 1, draws, j)

\* options.index(v): the 0-based index of the first v
IndexOf(options, v) == Least({k \in DOMAIN options : options[k] = v}) - 1

\* random.sample(pool, k)
random_sample(pool, k, draws, j) == SampleFrom(pool, k, 0, draws, j)

\* random.shuffle(x)
random_shuffle(x, draws, j) == ShuffleFrom(x, Len(x) - 1, draws, j)

\* the challenge with the shuffled options
OptionsChallenge(options, correct_answer) ==
    [type |-> "multiple_choice",
     question |-> "Which of the following is mentioned in this section?",
     options |-> options,
     correct_answer |-> IndexOf(options, correct_answer),
     hint |-> "Look for key terms mentioned in the text",
     difficulty |-> 2]

\* the challenge built around correct_answer: one draw for the answer, then
\* those of the sample, then those of the shuffle
ChoiceChallenge(clean_distractors, correct_answer, draws, j) ==
    OptionsChallenge(
        random_shuffle(random_sample(clean_distractors, Min(3, Len(clean_distractors)),
                                     draws, j + 1)
                       \o <<correct_answer>>,
                       draws, j + 1 + Min(3, Len(clean_distractors))),
        correct_answer)

\* a plausible fault: the distractors are not filtered against the segment
create_multiple_choice_challenge_unfiltered(segment, draws, j) ==
    Local(Local(SelectSeq(Words(segment),
                          LAMBDA word : Len(word) > 6 \/ IsUpper(CharAt(word, 1))),
                LAMBDA words : [k \in DOMAIN words |-> StripPunctuation(words[k])]),
          LAMBDA important_terms :
              IF important_terms # <<>>
              THEN ChoiceChallenge(
                       distractors,
                       important_terms[Draw(draws, j, Min(3, Len(important_terms))) + 1],
                       draws, j)
              ELSE [type |-> "multiple_choice",
                    question |-> "What is the main topic of this section?",
                    options |-> <<"Technology and innovation", "Historical events",
                                  "Scientific research", "Business strategy">>,
                    correct_answer |-> 0,
                    hint |-> "Consider the overall theme of the content",
                    difficulty |-> 1])

\* PuzzleBasedRepresentation.create_multiple_choice_challenge; j: the number
\* of draws made before it
create_multiple_choice_challenge(segment, draws, j) ==
    Local(Local(SelectSeq(Words(segment),
                          LAMBDA word : Len(word) > 6 \/ IsUpper(CharAt(word, 1))),
                LAMBDA words : [k \in DOMAIN words |-> StripPunctuation(words[k])]),
          LAMBDA important_terms :
              IF important_terms # <<>>
              THEN ChoiceChallenge(
                       SelectSeq(distractors, LAMBDA d : ~Contains(Lower(segment), Lower(d))),
                       important_terms[Draw(draws, j, Min(3, Len(important_terms))) + 1],
                       draws, j)
              ELSE [type |-> "multiple_choice",
                    question |-> "What is the main topic of this section?",
                    options |-> <<"Technology and innovation", "Historical events",
                                  "Scientific research", "Business strategy">>,
                    correct_answer |-> 0,
                    hint |-> "Consider the overall theme of the content",
                    difficulty |-> 1])

\* r'\b\d+\b'
Re_number(s, i) == Whole(s, i, Edge(s, DigitsPlus(s, Edge(s, i))))

\* the words around the first word of the sentence that holds the number
NumberContext(words, number) ==
    LET i == Least({k \in DOMAIN words : Contains(words[k], number)}) - 1
    IN  Upto(Strip(Join(Slice(words, Max(0, i - 3), Min(Len(words), i + 4)), " ")), 50)
        \o "..."

\* PuzzleBasedRepresentation.find_number_context
find_number_context(text, number) ==
    Local(SelectSeq(SplitSentences(text), LAMBDA sentence : Contains(sentence, number)),
          LAMBDA sentences :
              IF sentences = <<>> THEN "numerical information"
              ELSE NumberContext(Words(sentences[1]), number))

\* the challenge about the key phrase
PhraseChallenge(key_phrase) ==
    [type |-> "text_input",
     question |-> "Fill in the blank: One important concept mentioned is ______",
     correct_answer |-> <<StripPunctuation(Lower(key_phrase)), Lower(key_phrase)>>,
     hint |-> "It's a key term that starts with '"
              \o Upto(StripPunctuation(Lower(key_phrase)), 1) \o "'",
     difficulty |-> 3]

\* the challenge about the number
NumberChallenge(segment, number) ==
    [type |-> "text_input",
     question |-> "What number is mentioned in the context of: "
                  \o find_number_context(segment, number) \o "?",
     correct_answer |-> <<number, number>>,
     hint |-> "Look for numerical values in the text",
     difficulty |-> 2]

\* PuzzleBasedRepresentation.create_text_input_challenge
create_text_input_challenge(segment, key_phrases, draws, j) ==
    Local(Firsts(FindAll(Re_number, segment)),
          LAMBDA numbers :
              IF numbers # <<>>
              THEN NumberChallenge(segment, numbers[Draw(draws, j, Len(numbers)) + 1])
              ELSE IF key_phrases # <<>>
              THEN PhraseChallenge(key_phrases[Draw(draws, j, Min(2, Len(key_phrases))) + 1])
              ELSE [type |-> "text_input",
                    question |-> "What is one key word that summarizes this section?",
                    correct_answer |-> <<"information", "knowledge", "data", "content">>,
                    hint |-> "Think about what this section is trying to convey",
                    difficulty |-> 1])

challenge_types == <<"multiple_choice", "text_input">>

\* PuzzleBasedRepresentation.generate_challenge; the draws of the segment
\* index start at the index-th number of the run
generate_challenge(segment, index, seed, draws) ==
    IF challenge_types[Draw(draws, index, Len(challenge_types)) + 1] = "multiple_choice"
    THEN create_multiple_choice_challenge(segment, draws, index + 1)
    ELSE create_text_input_challenge(segment, Puzzle_extract_key_phrases(segment, seed),
                                     draws, index + 1)

\* <strong>word</strong> round the words of more than eight characters that
\* start with a capital
Emphasised(word) ==
    IF Len(StripPunctuation(word)) > 8 /\ IsUpper(CharAt(StripPunctuation(word), 1))
    THEN "<strong>" \o word \o "</strong>"
    ELSE word

\* PuzzleBasedRepresentation.format_segment_content
format_segment_content(segment) ==
    Local(Words(Replace(segment, "\n", "<br>")),
          LAMBDA words : Join([k \in DOMAIN words |-> Emphasised(words[k])], " "))

\* a plausible fault: every segment starts unlocked
puzzle_segments_open(segments, seed, draws) ==
    [k \in DOMAIN segments |->
        [id |-> "segment_" \o IntStr(k - 1),
         content |-> format_segment_content(segments[k]),
         challenge |-> generate_challenge(segments[k], k - 1, seed, draws),
         unlocked |-> TRUE,
         revealed |-> FALSE]]

\* for i, segment in enumerate(segments): puzzle_segments.append({...})
puzzle_segments(segments, seed, draws) ==
    [k \in DOMAIN segments |->
        [id |-> "segment_" \o IntStr(k - 1),
         content |-> format_segment_content(segments[k]),
         challenge |-> generate_challenge(segments[k], k - 1, seed, draws),
         unlocked |-> (k - 1 = 0),
         revealed |-> FALSE]]

RECURSIVE SumDifficulty(_, _)
\* sum(difficulty_levels)
SumDifficulty(segments, k) ==
    IF k > Len(segments) THEN 0
    ELSE segments[k].challenge.difficulty + SumDifficulty(segments, k + 1)

\* the Result of PuzzleBasedRepresentation.process built from the segments;
\* avg_difficulty in hundredths
Puzzle_result(self, segments) ==
    [mode |-> self.mode_name,
     content |-> [segments |-> segments,
                  total_segments |-> Len(segments),
                  completion_stats |-> [unlocked_count |-> 1, revealed_count |-> 0,
                                        solved_count |-> 0],
                  instructions |->
                      [solve |-> "Answer the challenge correctly to unlock the content",
                       reveal |-> "Click the reveal button to skip the challenge",
                       retry |-> "Try again if your answer is incorrect"]],
     metadata |-> [total_segments |-> Len(segments),
                   avg_difficulty |->
                       IF Len(segments) > 0
                       THEN RoundHundredths(SumDifficulty(segments, 1), Len(segments))
                       ELSE 100,
                   complexity |-> IF Len(segments) > 8 THEN "high"
                                  ELSE IF Len(segments) > 4 THEN "medium" ELSE "low",
                   interaction_type |-> "puzzle_based",
                   estimated_time_minutes |-> Len(segments) * 2],
     css_classes |-> <<"puzzle-based", "interactive", "game-learning">>,
     javascript_code |-> "initializePuzzleMode",
     frontend_config |-> [container_id |-> "puzzle-based-container", enable_reveal |-> TRUE,
                          enable_retry |-> TRUE, auto_progress |-> FALSE]]


(***************************************************************************)
(* The mode classes' process, in the steps of its code                      *)
(***************************************************************************)
\* the classes whose try block is part of this development
ExtractedModes ==
    {"plain_text", "color_coded", "collapsible_concepts", "summary", "timeline",
     "knowledge_graph", "puzzle_based"}

\* the message each process gives get_error_result when validate_content fails
TooShortMessage(cls) ==
    CASE cls = "plain_text" -> "Content too short for processing"
      [] cls = "color_coded" -> "Content too short for color coding"
      [] cls = "collapsible_concepts" -> "Content too short for concept extraction"
      [] cls = "summary" -> "Content too short for summarization"
      [] cls = "knowledge_graph" -> "Content too short for knowledge graph generation"
      [] cls = "timeline" -> "Content too short for timeline generation"
      [] cls = "puzzle_based" -> "Content too short for puzzle generation"

\* the run of numbers of a call that draws none
NoDraws == <<0>>

\* the locals the try block of process computes from the content; current_year
\* is datetime.now().year, seed the hash seed at that moment and draws the
\* numbers the random module hands out
Extracted(cls, content, current_year, seed, draws) ==
    CASE cls = "plain_text" -> [text |-> content]
      [] cls = "color_coded" -> [sections |-> categorize_content(content)]
      [] cls = "timeline" ->
            [events |-> extract_timeline_events_enhanced(content, current_year)]
      [] cls = "knowledge_graph" ->
            Local(extract_entities_enhanced(content, seed),
                  LAMBDA entities :
                      [entities |-> entities,
                       relationships |-> extract_relationships_enhanced(entities, content)])
      [] cls = "collapsible_concepts" ->
            [concepts |-> extract_hierarchical_concepts(content, seed)]
      [] cls = "summary" -> SummaryParts(content, extract_key_points(content, 6))
      [] cls = "puzzle_based" ->
            [segments |-> puzzle_segments(segment_content(content), seed, draws)]

\* the Result the try block builds from its locals
Assembled(self, locals) ==
    CASE self.mode_name = "plain_text" -> PlainText_result(self, locals.text)
      [] self.mode_name = "color_coded" -> ColorCoded_result(self, locals.sections)
      [] self.mode_name = "timeline" -> Timeline_result(self, locals.events)
      [] self.mode_name = "knowledge_graph" ->
            KnowledgeGraph_result(self, locals.entities, locals.relationships)
      [] self.mode_name = "collapsible_concepts" ->
            CollapsibleConcepts_result(self, locals.concepts)
      [] self.mode_name = "summary" -> Summary_result(self, locals)
      [] self.mode_name = "puzzle_based" -> Puzzle_result(self, locals.segments)

\* process(content) of the class instance self, run in one piece
process(self, content, current_year, seed, draws) ==
    IF ~validate_content(self.mode_name, content)
    THEN Returned(get_error_result(self, TooShortMessage(self.mode_name)))
    ELSE Returned(Assembled(self, Extracted(self.mode_name, content.text, current_year, seed,
                                            draws)))

(***************************************************************************)
(* State: the engine and the mode instances, the clock and the hash seed of *)
(* the running process, the calls made and the frames they run in           *)
(***************************************************************************)
MaxCalls == 2
MaxTicks == 1
MaxSeed == 1
MaxDraw == 1
RandomPeriod == 3
FirstYear == 2024

Calls == 1..MaxCalls

NoOutcome == [kind |-> "none"]

NoCall ==
    [pc |-> "idle", target |-> "", mode |-> "", content |-> NoContent, prefs |-> NoPrefs,
     year |-> 0, seed |-> 0, overlapped |-> FALSE, outcome |-> NoOutcome]

\* call c is in flight
Running(c) == calls[c].pc \notin {"idle", "done"}

\* overlapped, kept for the properties: a step of call c was taken while
\* another call was in flight
Overlap(c) == calls[c].overlapped \/ \E d \in Calls \ {c} : Running(d)

NoFrame == [content |-> NoContent, mode |-> "", prefs |-> NoPrefs, handler |-> "",
            locals |-> EmptyDict]

\* one frame for all the calls, as if the locals were kept on the instance
FrameShared(c) == 1

\* the frame that holds the locals of call c: every call has its own
FrameOf(c) == c

Init ==
    /\ available_modes = EngineInit
    /\ registry = [cls \in ModeClasses |-> BaseInit(cls)]
    /\ now_year = FirstYear
    /\ hash_seed = 0
    /\ calls = [c \in Calls |-> NoCall]
    /\ frames = [c \in Calls |-> NoFrame]

\* generate_representation(content, mode, user_preferences) is called
EngineStart(c, content, mode, prefs) ==
    /\ calls[c].pc = "idle"
    /\ calls' = [calls EXCEPT ![c] =
                    [NoCall EXCEPT !.pc = "route", !.target = "engine", !.mode = mode,
                                   !.content = Text(content), !.prefs = prefs]]
    /\ frames' = [frames EXCEPT ![FrameOf(c)] =
                     [NoFrame EXCEPT !.content = Text(content), !.mode = mode,
                                     !.prefs = prefs]]
    /\ UNCHANGED <<available_modes, registry, now_year, hash_seed>>

\* lines 114-135: the fallback to plain_text and the lookup of the handler
EngineRoute(c) ==
    /\ calls[c].pc = "route"
    /\ LET f == frames[FrameOf(c)]
           mode == RoutedMode(available_modes, f.mode)
       IN  frames' = [frames EXCEPT ![FrameOf(c)] =
                         [f EXCEPT !.mode = mode, !.handler = handler_map(mode)]]
    /\ calls' = [calls EXCEPT ![c] = [@ EXCEPT !.pc = "handle", !.overlapped = Overlap(c)]]
    /\ UNCHANGED <<available_modes, registry, now_year, hash_seed>>

\* line 136: the handler runs; its Result or its exception is the call's outcome
EngineHandle(c) ==
    /\ calls[c].pc = "handle"
    /\ LET f == frames[FrameOf(c)]
       IN  calls' = [calls EXCEPT ![c] =
                        [@ EXCEPT !.pc = "done", !.year = now_year, !.seed = hash_seed,
                                  !.overlapped = Overlap(c),
                                  !.outcome = CallHandler(f.handler, f.content.text,
                                                          OrEmpty(f.prefs), hash_seed)]]
    /\ UNCHANGED <<available_modes, registry, now_year, hash_seed, frames>>

\* the calls this development follows to their end: those of the classes of
\* ExtractedModes, and of the other classes those that validation turns down
\* the runs of numbers the random module may hand out to a call of the class
RandomRuns(cls) ==
    IF cls = "puzzle_based" THEN [1..RandomPeriod -> 0..MaxDraw] ELSE {NoDraws}

ProcessDefined(cls, content) == cls \in ExtractedModes \/ ~validate_content(cls, content)

\* process(content, user_preferences) of the instance of cls is called
ModeStart(c, cls, content, prefs) ==
    /\ calls[c].pc = "idle"
    /\ ProcessDefined(cls, content)
    /\ calls' = [calls EXCEPT ![c] =
                    [NoCall EXCEPT !.pc = "validate", !.target = "mode", !.mode = cls,
                                   !.content = content, !.prefs = prefs]]
    /\ frames' = [frames EXCEPT ![FrameOf(c)] =
                     [NoFrame EXCEPT !.content = content, !.mode = cls, !.prefs = prefs]]
    /\ UNCHANGED <<available_modes, registry, now_year, hash_seed>>

\* if not self.validate_content(content): return self.get_error_result(...)
ModeValidate(c) ==
    /\ calls[c].pc = "validate"
    /\ LET f == frames[FrameOf(c)]
       IN  IF validate_content(f.mode, f.content)
           THEN calls' = [calls EXCEPT ![c] =
                             [@ EXCEPT !.pc = "extract", !.overlapped = Overlap(c)]]
           ELSE calls' = [calls EXCEPT ![c] =
                             [@ EXCEPT !.pc = "done", !.year = now_year, !.seed = hash_seed,
                                       !.overlapped = Overlap(c),
                                       !.outcome =
                                           Returned(get_error_result(
                                               registry[f.mode], TooShortMessage(f.mode)))]]
    /\ UNCHANGED <<available_modes, registry, now_year, hash_seed, frames>>

\* the try block up to the construction of the Result: the extraction, which
\* reads the clock, iterates sets in the order the hash seed gives and, in
\* PuzzleBased, draws random numbers
ModeExtract(c) ==
    /\ calls[c].pc = "extract"
    /\ LET f == frames[FrameOf(c)]
       IN  \E draws \in RandomRuns(f.mode) :
               frames' = [frames EXCEPT ![FrameOf(c)].locals =
                             Extracted(f.mode, f.content.text, now_year, hash_seed, draws)]
    /\ calls' = [calls EXCEPT ![c] =
                    [@ EXCEPT !.pc = "assemble", !.year = now_year, !.seed = hash_seed,
                              !.overlapped = Overlap(c)]]
    /\ UNCHANGED <<available_modes, registry, now_year, hash_seed>>

\* return RepresentationResult(...)
ModeFinish(c) ==
    /\ calls[c].pc = "assemble"
    /\ LET f == frames[FrameOf(c)]
       IN  calls' = [calls EXCEPT ![c] =
                        [@ EXCEPT !.pc = "done", !.overlapped = Overlap(c),
                                  !.outcome = Returned(Assembled(registry[f.mode], f.locals))]]
    /\ UNCHANGED <<available_modes, registry, now_year, hash_seed, frames>>

\* the caller takes the outcome; the slot is free for the next call
Return(c) ==
    /\ calls[c].pc = "done"
    /\ calls' = [calls EXCEPT ![c] = NoCall]
    /\ frames' = [frames EXCEPT ![FrameOf(c)] = NoFrame]
    /\ UNCHANGED <<available_modes, registry, now_year, hash_seed>>

\* the wall clock passes into the next year
Tick ==
    /\ now_year < FirstYear + MaxTicks
    /\ now_year' = now_year + 1
    /\ UNCHANGED <<available_modes, registry, hash_seed, calls, frames>>

\* the process is started anew: the engine and the instances are built again,
\* the hash seed is drawn again, the calls in flight are lost and the outcomes
\* already returned stay with their callers
Restart ==
    /\ \E seed \in 0..MaxSeed : seed # hash_seed /\ hash_seed' = seed
    /\ available_modes' = EngineInit
    /\ registry' = [cls \in ModeClasses |-> BaseInit(cls)]
    /\ calls' = [c \in Calls |-> IF calls[c].pc = "done" THEN calls[c] ELSE NoCall]
    /\ frames' = [c \in Calls |-> NoFrame]
    /\ UNCHANGED now_year


(***************************************************************************)
(* Inputs                                                                  *)
(***************************************************************************)
\* all the sequences over S of length 1..n
SeqsUpTo(S, n) == UNION {[1..k -> S] : k \in 1..n}

\* sentences, each closed by a full stop
Sentences(seq) == Join(seq, ". ") \o "."

\* an empty text, texts under the minimum before and after trimming, a text
\* between the two minimums and one beyond both
Contents ==
    {"", "Hello", "   Hello     ",
     "Research shows that data matters. However, it may vary.",
     "Albert Einstein published the theory of relativity in 1905. " \o
     "In 1915 he refined it into general relativity."}

ContentArgs == {NoContent} \cup {Text(s) : s \in Contents}

\* the catalog's ids, the id of the class the catalog lacks and an unknown id
RequestedModes == Range(EngineModeIds) \cup {"puzzle_based", "hologram"}

PrefsArgs == {NoPrefs, Prefs(EmptyDict), Prefs([mode |-> "persona_eli5"])}

MaxSentences == 3

\* a fact, a warning, an example that is also a fact, an assumption and a
\* sentence without any keyword
ColorSentences ==
    {"Research shows clear results", "Beware of the risk", "For example consider data",
     "It might rain later", "The sky is blue"}

ColorContents == {Sentences(seq) : seq \in SeqsUpTo(ColorSentences, MaxSentences)}

MaxDated == 2

\* two years, a relative date, a month of a year and a decade
TimelineSentences ==
    {"Einstein published relativity in 1905",
     "In 1915 he refined it into general relativity",
     "The first paper appeared 5 years ago",
     "In March 1915 the lectures began",
     "The 1980s saw home computers"}

TimelineContents == {Sentences(seq) : seq \in SeqsUpTo(TimelineSentences, MaxDated)}

MaxEvents == 3

\* a month of a year, a year, a sentence with more important words in the next
\* month of the first, a sentence without a date and one whose only date the
\* parser turns down (a year before 1800)
EventSentences ==
    {"Alpha team started work in January 2000",
     "The beta launch happened in 1990",
     "The first major beta launch happened in February 2000",
     "Nothing here carries any date",
     "The relic dates from 1492"}

EventContents == {Sentences(seq) : seq \in SeqsUpTo(EventSentences, MaxEvents)}

MaxClassified == 2

\* a warning that is also a fact, an example, two assumptions (one of them
\* "likely"), a fact and a sentence without any keyword
PrioritySentences ==
    {"Beware of the proven risk", "For example consider data", "It will likely rain",
     "It might rain later", "Research shows clear results", "The sky is blue"}

PriorityContents == {Sentences(seq) : seq \in SeqsUpTo(PrioritySentences, MaxClassified)}

MaxParagraphs == 3

\* a paragraph with two sentences that become sub-concepts, one of a single
\* sentence, one whose second sentence is too short and one with one
\* sub-concept
ConceptParagraphs ==
    {"The software system is a set of parts. First, the parser reads every token. " \o
         "It also checks the grammar rules",
     "Large language models can write code",
     "An apple a day keeps doctors away. Like so",
     "Photosynthesis feeds plants. For example consider the benefit of value"}

\* paragraphs, each closed by a full stop and parted by an empty line
Paragraphs(seq) == Join(seq, ".\n\n") \o "."

\* two paragraphs that share one word, the eighth keyword of the first
SharedWordText ==
    "Quiet rivers carry silver water under ancient bridges.\n\nStrict bridges help."

ConceptContents ==
    {Paragraphs(seq) : seq \in SeqsUpTo(ConceptParagraphs, MaxParagraphs)}
    \cup {SharedWordText}

MaxSummarySentences == 3

\* a definition with an importance word, a sentence with numbers, and two
\* sentences too short for every strategy
SummarySentences ==
    {"Machine learning is a very important field of study today",
     "In 2020 about 45% of the users left",
     "Cats purr",
     "Hello world again"}

\* more sentences than key points may be kept: a topic sentence, four with
\* importance words, one with numbers and two definitions
CrowdedSummaryText ==
    "The key idea is simple enough to state here. The main result is stated in the " \o
    "second part. In 2020 about 45% of the users left. Overall the method works well " \o
    "in practice today. Small birds are loud animals in spring mornings. A neural " \o
    "network means a model that learns. Research shows that the core claim holds up."

\* no key point and no sentence of more than 50 characters, in 24 words
ManyWordsText ==
    "Cats purr. Dogs bark at night. Birds sing at dawn. Fish swim in ponds. " \o
    "Frogs jump on logs. Bees buzz by day. Owls hoot."

\* no key point, and a sentence of more than 50 characters
LongSentenceText ==
    "Cats purr. Nothing else matters beyond this very long closing sentence without signals."

SummaryContents ==
    {Sentences(seq) : seq \in SeqsUpTo(SummarySentences, MaxSummarySentences)}
    \cup {CrowdedSummaryText, ManyWordsText, LongSentenceText}

MaxPuzzleSentences == 4

\* a sentence with names and a number, one with a word ending in -tion and
\* one without a name, a number or a long word
PuzzleSentences ==
    {"Ada Lovelace wrote the first program in 1843",
     "The engine used punched cards for its information",
     "nobody built the big engine in her time"}

\* a text of three paragraphs
ParagraphText ==
    "Ada Lovelace wrote the first program in 1843.\n\n" \o
    "The engine used punched cards for its information.\n\n" \o
    "nobody built the big engine in her time."

\* texts under the minimum of PuzzleBased (one or two sentences), of one
\* segment (three) and of two (four), and the text of three paragraphs
\* a text of one segment that names two distractors of the fixed pool
DistractorText ==
    "Ada Lovelace foresaw quantum computing and a machine learning algorithm. " \o
    "The engine used punched cards for its information."

\* a text long enough for PuzzleBased, of sentences of at most 20 characters
ShortSentencesText ==
    "Ada wrote code. Bob read it. Cyd ran tests. Dan fixed bugs. Eve made tea. " \o
    "Fay drew maps. Gus sang songs. Hal kept bees."

PuzzleContents ==
    {Sentences(seq) : seq \in SeqsUpTo(PuzzleSentences, MaxPuzzleSentences)}
    \cup {ParagraphText, DistractorText, ShortSentencesText}

MaxGraphSentences == 2

\* sentences with abbreviations of two and of three letters, with verbs of the
\* relationship patterns and one whose two sides are the same entity
GraphSentences ==
    {"AI is a technology",
     "Machine learning is a subset of AI",
     "The API uses SQL",
     "Ada uses Rust daily"}

\* a text with more names than the result may hold
CrowdedText ==
    "Uma uses Ada, Ada, Bob, Cyd, Dan, Eve, Fay, Gus, Hal, Ian, Jon, Kim, Lee, Max, Ned, " \o
    "Oda, Pam, Quy, Ray, Sam, Tom"

\* a text whose most important entity shares a word with the left side of a
\* relationship, while a less important one contains that side
OverlapText == "Old tools fail. Old tools fail. The new tools use data."

GraphContents ==
    {Sentences(seq) : seq \in SeqsUpTo(GraphSentences, MaxGraphSentences)}
    \cup {CrowdedText, OverlapText}

\* the calls of the interleaved runs
RunInputs ==
    {[target |-> "engine", mode |-> "knowledge_graph", content |-> "Ada uses Rust daily."],
     [target |-> "mode", mode |-> "knowledge_graph", content |-> "The API uses SQL."],
     [target |-> "mode", mode |-> "timeline", content |-> "It began 5 years ago."],
     [target |-> "mode", mode |-> "color_coded", content |-> "Beware of the risk."]}

(***************************************************************************)
(* Specifications                                                          *)
(***************************************************************************)
\* one caller: every content, every mode id and every class, one call at a time
Next ==
    \/ \E content \in Contents, mode \in RequestedModes, prefs \in PrefsArgs :
          EngineStart(1, content, mode, prefs)
    \/ EngineRoute(1)
    \/ EngineHandle(1)
    \/ \E cls \in ModeClasses, content \in ContentArgs, prefs \in {NoPrefs, Prefs(EmptyDict)} :
          ModeStart(1, cls, content, prefs)
    \/ ModeValidate(1)
    \/ ModeExtract(1)
    \/ ModeFinish(1)
    \/ Return(1)

Spec == Init /\ [][Next]_vars

\* ColorCoded on every text of up to MaxSentences sentences
NextColor ==
    \/ \E content \in ColorContents : ModeStart(1, "color_coded", Text(content), NoPrefs)
    \/ ModeValidate(1)
    \/ ModeExtract(1)
    \/ ModeFinish(1)
    \/ Return(1)

SpecColor == Init /\ [][NextColor]_vars

\* Timeline on every text of up to MaxDated dated sentences, in any year
NextTimeline ==
    \/ \E content \in TimelineContents : ModeStart(1, "timeline", Text(content), NoPrefs)
    \/ ModeValidate(1)
    \/ ModeExtract(1)
    \/ ModeFinish(1)
    \/ Return(1)
    \/ Tick

SpecTimeline == Init /\ [][NextTimeline]_vars

\* Timeline on every text of up to MaxEvents sentences with and without dates
NextEvents ==
    \/ \E content \in EventContents : ModeStart(1, "timeline", Text(content), NoPrefs)
    \/ ModeValidate(1)
    \/ ModeExtract(1)
    \/ ModeFinish(1)
    \/ Return(1)

SpecEvents == Init /\ [][NextEvents]_vars

\* ColorCoded on every text of up to MaxClassified sentences of PrioritySentences
NextPriority ==
    \/ \E content \in PriorityContents :
          ModeStart(1, "color_coded", Text(content), NoPrefs)
    \/ ModeValidate(1)
    \/ ModeExtract(1)
    \/ ModeFinish(1)
    \/ Return(1)

SpecPriority == Init /\ [][NextPriority]_vars

\* PuzzleBased on every text of PuzzleContents, under every hash seed and with
\* every run of random numbers
NextPuzzle ==
    \/ \E content \in PuzzleContents :
          ModeStart(1, "puzzle_based", Text(content), NoPrefs)
    \/ ModeValidate(1)
    \/ ModeExtract(1)
    \/ ModeFinish(1)
    \/ Return(1)
    \/ Restart

SpecPuzzle == Init /\ [][NextPuzzle]_vars

\* CollapsibleConcepts on every text of up to MaxParagraphs paragraphs, under
\* every hash seed
NextConcepts ==
    \/ \E content \in ConceptContents :
          ModeStart(1, "collapsible_concepts", Text(content), NoPrefs)
    \/ ModeValidate(1)
    \/ ModeExtract(1)
    \/ ModeFinish(1)
    \/ Return(1)
    \/ Restart

SpecConcepts == Init /\ [][NextConcepts]_vars

\* Summary on every text of SummaryContents
NextSummary ==
    \/ \E content \in SummaryContents : ModeStart(1, "summary", Text(content), NoPrefs)
    \/ ModeValidate(1)
    \/ ModeExtract(1)
    \/ ModeFinish(1)
    \/ Return(1)

SpecSummary == Init /\ [][NextSummary]_vars

\* KnowledgeGraph on every text of GraphContents, under every hash seed
NextGraph ==
    \/ \E content \in GraphContents :
          ModeStart(1, "knowledge_graph", Text(content), NoPrefs)
    \/ ModeValidate(1)
    \/ ModeExtract(1)
    \/ ModeFinish(1)
    \/ Return(1)
    \/ Restart

SpecGraph == Init /\ [][NextGraph]_vars

\* MaxCalls callers whose calls interleave in any order
NextRuns ==
    \/ \E c \in Calls, i \in RunInputs :
          \/ i.target = "engine" /\ EngineStart(c, i.content, i.mode, NoPrefs)
          \/ i.target = "mode" /\ ModeStart(c, i.mode, Text(i.content), NoPrefs)
    \/ \E c \in Calls :
          \/ EngineRoute(c)
          \/ EngineHandle(c)
          \/ ModeValidate(c)
          \/ ModeExtract(c)
          \/ ModeFinish(c)
          \/ Return(c)

SpecRuns == Init /\ [][NextRuns]_vars

\* the same callers while the clock advances and the process may be started anew
NextRepeat ==
    \/ NextRuns
    \/ Tick
    \/ Restart

SpecRepeat == Init /\ [][NextRepeat]_vars


(***************************************************************************)
(* Properties                                                              *)
(***************************************************************************)
\* call c has ended and was made to the engine / to a mode instance
EngineDone(c) == calls[c].pc = "done" /\ calls[c].target = "engine"
ModeDone(c) == calls[c].pc = "done" /\ calls[c].target = "mode"

\* the minimum of the trimmed length the claims state for each class
StatedMinimum(cls) == IF cls = "puzzle_based" THEN PuzzleMinContentLength ELSE MinContentLength

\* C1: generate_representation never propagates an exception: for every content
\* string (the empty one included), every mode id and every preferences map the
\* call ends by returning a Result.
C1_EngineNeverRaises ==
    \A c \in Calls : EngineDone(c) => calls[c].outcome.kind = "return"

\* C2: for each of the seven mode classes, process called with content that is
\* missing, empty or whose trimmed length is below the class's minimum (100 for
\* PuzzleBased, 10 for the others) returns a Result whose metadata.error is
\* true and which carries a message; it does not raise.
C2_ShortContentGivesErrorResult ==
    \A c \in Calls :
        (ModeDone(c)
         /\ (~calls[c].content.given
             \/ Len(Strip(calls[c].content.text)) < StatedMinimum(calls[c].mode)))
        => /\ calls[c].outcome.kind = "return"
           /\ HasErrorFlag(calls[c].outcome.value)
           /\ calls[c].outcome.value.content.error = TRUE
           /\ Len(calls[c].outcome.value.content.message) > 0

\* a PuzzleBased call whose text passes the generic minimum and not the class's
\* own has ended with the error Result
C2_Witness ==
    \E c \in Calls :
        /\ ModeDone(c)
        /\ calls[c].mode = "puzzle_based"
        /\ calls[c].content.given
        /\ Len(Strip(calls[c].content.text)) >= MinContentLength
        /\ Len(Strip(calls[c].content.text)) < PuzzleMinContentLength
        /\ HasErrorFlag(calls[c].outcome.value)

\* C3: an engine call whose content has fewer than 10 characters once trimmed
\* short-circuits: it returns an error Result (metadata.error true) and no mode
\* handler is chosen or run for it.
C3_EngineShortCircuits ==
    \A c \in Calls :
        (EngineDone(c) /\ Len(Strip(calls[c].content.text)) < MinContentLength)
        => /\ calls[c].outcome.kind = "return"
           /\ HasErrorFlag(calls[c].outcome.value)
           /\ frames[FrameOf(c)].handler = ""

\* C4: for every mode id that has a mode class, the Result of the engine's call
\* equals the Result of that class's process on the same content.
C4_EngineDelegatesToModeClass ==
    \A c \in Calls :
        (EngineDone(c) /\ calls[c].mode \in ModeClasses
         /\ ProcessDefined(calls[c].mode, calls[c].content))
        => calls[c].outcome =
               process(registry[calls[c].mode], calls[c].content, calls[c].year,
                       calls[c].seed, NoDraws)

\* C5: the Result of an engine call has the requested mode id when the id is in
\* the catalog (the three persona ids included) and "plain_text" when it is not.
C5_ResultModeIsRequestedMode ==
    \A c \in Calls :
        (EngineDone(c) /\ calls[c].outcome.kind = "return")
        => calls[c].outcome.value.mode =
               (IF calls[c].mode \in DOMAIN available_modes THEN calls[c].mode
                ELSE "plain_text")

\* C6: for a mode id that is not in the catalog the engine returns exactly what
\* it returns for "plain_text" on the same content: a Result of mode
\* "plain_text" whose content.text is the input, without an error flag.
C6_UnknownModeFallsBackToPlainText ==
    \A c \in Calls :
        (EngineDone(c) /\ calls[c].mode \notin DOMAIN available_modes)
        => /\ calls[c].outcome =
                  generate_representation(available_modes, calls[c].content.text,
                                          "plain_text", calls[c].prefs, calls[c].seed)
           /\ calls[c].outcome.value.mode = "plain_text"
           /\ calls[c].outcome.value.content.text = calls[c].content.text
           /\ ~HasErrorFlag(calls[c].outcome.value)

\* a call with an unknown id and a text of several words has returned
C6_Witness ==
    \E c \in Calls :
        /\ EngineDone(c)
        /\ calls[c].mode = "hologram"
        /\ Len(Words(calls[c].content.text)) > 1
        /\ calls[c].outcome.kind = "return"
        /\ calls[c].outcome.value.mode = "plain_text"


\* C7: for every mode except PuzzleBased, two calls with the same content, mode
\* and preferences return the same Result, whatever happened between them
\* (other calls, a new process, a later date).
C7_SameInputsSameResult ==
    \A c, d \in Calls :
        (/\ calls[c].pc = "done" /\ calls[d].pc = "done"
         /\ calls[c].target = calls[d].target
         /\ calls[c].mode = calls[d].mode
         /\ calls[c].mode # "puzzle_based"
         /\ calls[c].content = calls[d].content
         /\ calls[c].prefs = calls[d].prefs)
        => calls[c].outcome = calls[d].outcome

\* what the call returns when it runs alone, in the year and under the hash
\* seed it ran in
RunAlone(call) ==
    IF call.target = "engine"
    THEN generate_representation(EngineInit, call.content.text, call.mode, call.prefs,
                                 call.seed)
    ELSE process(BaseInit(call.mode), call.content, call.year, call.seed, NoDraws)

\* RunAlone of every call of RunInputs, in every year and under every seed
AloneResults ==
    [i \in RunInputs |->
        [year \in FirstYear..(FirstYear + MaxTicks) |->
            [seed \in 0..MaxSeed |->
                RunAlone([target |-> i.target, mode |-> i.mode, content |-> Text(i.content),
                          prefs |-> NoPrefs, year |-> year, seed |-> seed])]]]

\* C8: when calls on the same engine and mode instances interleave in any
\* order, every call of a deterministic mode returns the Result it returns when
\* run alone, and no call changes the engine's catalog or a mode's static
\* metadata (mode_name, description, icon, category).
C8_InterleavedCallsAreIndependent ==
    /\ available_modes = EngineInit
    /\ registry = [cls \in ModeClasses |-> BaseInit(cls)]
    /\ \A c \in Calls :
          (calls[c].pc = "done" /\ calls[c].mode # "puzzle_based")
          => calls[c].outcome =
                 AloneResults[[target |-> calls[c].target, mode |-> calls[c].mode,
                               content |-> calls[c].content.text]][calls[c].year][
                              calls[c].seed]

\* a call has ended after steps taken while a call with another content was in
\* flight, which still is
C8_Witness ==
    \E c, d \in Calls :
        /\ c # d
        /\ calls[c].pc = "done"
        /\ calls[c].overlapped
        /\ calls[d].pc = "assemble"
        /\ calls[d].content # calls[c].content

\* the number of times x occurs in seq
CountIn(seq, x) == Cardinality({k \in DOMAIN seq : seq[k] = x})

\* C9: in every non-error ColorCoded result each sentence of the segmented
\* content is in exactly one of the buckets facts, assumptions, examples and
\* warnings, and the four counts add up to total_sections, the number of
\* segmented sentences.
C9_ColorCodedPartition ==
    \A c \in Calls :
        (ModeDone(c) /\ calls[c].mode = "color_coded"
         /\ ~HasErrorFlag(calls[c].outcome.value))
        => LET result == calls[c].outcome.value.content
               statistics == result.statistics
               sentences == extract_sentences(calls[c].content.text)
           IN  /\ statistics.facts_count + statistics.assumptions_count
                  + statistics.examples_count + statistics.warnings_count
                  = statistics.total_sections
               /\ statistics.total_sections = Len(sentences)
               /\ \A b \in Range(BucketNames) :
                     statistics[b \o "_count"] = Len(result.sections[b])
               /\ \A k \in DOMAIN sentences :
                     CountIn(result.sections.facts, sentences[k])
                     + CountIn(result.sections.assumptions, sentences[k])
                     + CountIn(result.sections.examples, sentences[k])
                     + CountIn(result.sections.warnings, sentences[k])
                     = CountIn(sentences, sentences[k])

\* a result of three sentences, one of them with keywords of two families,
\* spread over at least two buckets
C9_Witness ==
    \E c \in Calls :
        /\ ModeDone(c) /\ calls[c].mode = "color_coded"
        /\ ~HasErrorFlag(calls[c].outcome.value)
        /\ calls[c].outcome.value.content.statistics.total_sections = 3
        /\ calls[c].outcome.value.content.statistics.examples_count = 1
        /\ calls[c].outcome.value.content.statistics.warnings_count >= 1

\* C10: in every non-error Timeline result the events are non-decreasing by
\* date_parsed.sort_key: each event's key is at most the next one's.
C10_TimelineEventsSorted ==
    \A c \in Calls :
        (ModeDone(c) /\ calls[c].mode = "timeline" /\ ~HasErrorFlag(calls[c].outcome.value))
        => LET events == calls[c].outcome.value.content.events
           IN  \A i \in 1..(Len(events) - 1) :
                   events[i].date_parsed.sort_key <= events[i + 1].date_parsed.sort_key

\* the text names 1915 before 1905 and the result has 1905 before 1915
C10_Witness ==
    \E c \in Calls :
        /\ ModeDone(c) /\ calls[c].mode = "timeline"
        /\ calls[c].content.text =
               Sentences(<<"In 1915 he refined it into general relativity",
                           "Einstein published relativity in 1905">>)
        /\ ~HasErrorFlag(calls[c].outcome.value)
        /\ Len(calls[c].outcome.value.content.events) = 2
        /\ calls[c].outcome.value.content.events[1].date_parsed.sort_key = 1905
        /\ calls[c].outcome.value.content.events[2].date_parsed.sort_key = 1915

\* C11: the events of a Timeline result (the list remove_duplicate_events
\* returned, sorted) hold no two distinct events whose titles share more than
\* 60% of the shorter title's words and whose periods differ by less than 0.1.
C11_NoSimilarEventsRetained ==
    \A c \in Calls :
        (ModeDone(c) /\ calls[c].mode = "timeline" /\ ~HasErrorFlag(calls[c].outcome.value))
        => LET events == calls[c].outcome.value.content.events
           IN  \A i, j \in DOMAIN events :
                   i < j => ~(/\ events_similar(events[i], events[j])
                              /\ PeriodsClose(events[i].date_parsed.period,
                                              events[j].date_parsed.period))

\* the ids of the nodes or entities of a sequence
Ids(seq) == {seq[k].id : k \in DOMAIN seq}

\* C12: every non-error KnowledgeGraph result is a well-formed graph: it has at
\* most 20 nodes, the from and the to of every edge are ids of nodes of the
\* same result, and no edge has from = to; the same holds of its entities and
\* relationships.
C12_GraphWellFormed ==
    \A c \in Calls :
        (ModeDone(c) /\ calls[c].mode = "knowledge_graph"
         /\ ~HasErrorFlag(calls[c].outcome.value))
        => LET result == calls[c].outcome.value.content
               nodes == result.graph_data.nodes
               edges == result.graph_data.edges
           IN  /\ Len(nodes) <= EntityLimit
               /\ Len(result.entities) <= EntityLimit
               /\ Cardinality(Ids(nodes)) = Len(nodes)
               /\ \A k \in DOMAIN edges :
                     /\ edges[k].from \in Ids(nodes)
                     /\ edges[k].to \in Ids(nodes)
                     /\ edges[k].from # edges[k].to
               /\ \A k \in DOMAIN result.relationships :
                     /\ result.relationships[k].from \in Ids(result.entities)
                     /\ result.relationships[k].to \in Ids(result.entities)
                     /\ result.relationships[k].from # result.relationships[k].to

\* a result of the text with more names than the limit: twenty nodes, fewer
\* than the names found, and an edge
C12_Witness ==
    \E c \in Calls :
        /\ ModeDone(c) /\ calls[c].mode = "knowledge_graph"
        /\ calls[c].content.text = CrowdedText
        /\ ~HasErrorFlag(calls[c].outcome.value)
        /\ Len(calls[c].outcome.value.content.graph_data.nodes) = EntityLimit
        /\ Len(Dedup(EntityMatches(CrowdedText))) > EntityLimit
        /\ Len(calls[c].outcome.value.content.graph_data.edges) > 0

\* C13: in every CollapsibleConcepts result every top-level concept has
\* level = 1, every child of one has level = 2 and an empty list of children,
\* and the reported max_depth is 2 exactly when some concept has a child and 1
\* otherwise.
C13_ConceptLevels ==
    \A c \in Calls :
        (ModeDone(c) /\ calls[c].mode = "collapsible_concepts"
         /\ ~HasErrorFlag(calls[c].outcome.value))
        => LET result == calls[c].outcome.value
               concepts == result.content.concepts
               expected == IF \E k \in DOMAIN concepts : Len(concepts[k].children) > 0
                           THEN 2 ELSE 1
           IN  /\ \A k \in DOMAIN concepts :
                     /\ concepts[k].level = 1
                     /\ \A j \in DOMAIN concepts[k].children :
                           /\ concepts[k].children[j].level = 2
                           /\ concepts[k].children[j].children = <<>>
               /\ result.content.hierarchy_stats.max_depth = expected
               /\ result.metadata.max_depth = expected

\* a result of two concepts, the first with two children and the second with
\* none
C13_Witness ==
    \E c \in Calls :
        /\ ModeDone(c) /\ calls[c].mode = "collapsible_concepts"
        /\ ~HasErrorFlag(calls[c].outcome.value)
        /\ Len(calls[c].outcome.value.content.concepts) = 2
        /\ Len(calls[c].outcome.value.content.concepts[1].children) = 2
        /\ Len(calls[c].outcome.value.content.concepts[2].children) = 0
        /\ calls[c].outcome.value.content.hierarchy_stats.max_depth = 2

\* C14: in every Summary result key_points holds no two equal strings and at
\* most 6 entries, whichever of the four strategies produced them.
C14_KeyPointsUniqueAndCapped ==
    \A c \in Calls :
        (ModeDone(c) /\ calls[c].mode = "summary" /\ ~HasErrorFlag(calls[c].outcome.value))
        => LET key_points == calls[c].outcome.value.content.key_points
           IN  /\ Len(key_points) <= 6
               /\ \A i, j \in DOMAIN key_points : i # j => key_points[i] # key_points[j]
               /\ calls[c].outcome.value.content.metrics.key_points_count = Len(key_points)

\* the result of the text whose strategies find more than six points: six
\* are kept, among them the topic sentence, one found by its importance word
\* and the one with the numbers
C14_Witness ==
    \E c \in Calls :
        /\ ModeDone(c) /\ calls[c].mode = "summary"
        /\ calls[c].content.text = CrowdedSummaryText
        /\ ~HasErrorFlag(calls[c].outcome.value)
        /\ Len(AllKeyPoints(CrowdedSummaryText, extract_sentences(CrowdedSummaryText), 6)) > 6
        /\ Len(calls[c].outcome.value.content.key_points) = 6
        /\ calls[c].outcome.value.content.key_points[1]
               = "The key idea is simple enough to state here"
        /\ \E k \in 1..6 : calls[c].outcome.value.content.key_points[k]
                                = "In 2020 about 45% of the users left"

\* C15: for every content that passes validation the compression_ratio of the
\* Summary result (in hundredths) is greater than 0 and at most 1.
C15_CompressionRatioInUnitInterval ==
    \A c \in Calls :
        (ModeDone(c) /\ calls[c].mode = "summary"
         /\ validate_content("summary", calls[c].content))
        => /\ ~HasErrorFlag(calls[c].outcome.value)
           /\ calls[c].outcome.value.content.metrics.compression_ratio > 0
           /\ calls[c].outcome.value.content.metrics.compression_ratio <= 100

\* C16: whenever the content passes validation the TL;DR of the Summary
\* result is a non-empty string, on every branch of generate_tldr.
C16_TldrNonEmpty ==
    \A c \in Calls :
        (ModeDone(c) /\ calls[c].mode = "summary"
         /\ validate_content("summary", calls[c].content))
        => /\ ~HasErrorFlag(calls[c].outcome.value)
           /\ Len(calls[c].outcome.value.content.tldr) > 0

\* a text without key points, without a sentence of more than 50 characters
\* and of 20 words at most: the TL;DR is the fixed text
C16_Witness ==
    \E c \in Calls :
        /\ ModeDone(c) /\ calls[c].mode = "summary"
        /\ validate_content("summary", calls[c].content)
        /\ calls[c].outcome.value.content.key_points = <<>>
        /\ calls[c].outcome.value.content.tldr = "Summary not available for this content."

\* C17: Timeline's process on content that passes validation and from which no
\* event is extracted returns, without raising, the error Result: metadata.error
\* is true, the content carries a message and a fallback text and no events.
C17_NoEventsGivesErrorResult ==
    \A c \in Calls :
        (/\ ModeDone(c) /\ calls[c].mode = "timeline"
         /\ validate_content("timeline", calls[c].content)
         /\ AllEvents(extract_sentences(calls[c].content.text), 1, calls[c].year) = <<>>)
        => /\ calls[c].outcome.kind = "return"
           /\ HasErrorFlag(calls[c].outcome.value)
           /\ calls[c].outcome.value.content.error = TRUE
           /\ calls[c].outcome.value.content.message = "No temporal events found in content"
           /\ Len(calls[c].outcome.value.content.fallback_content) > 0
           /\ "events" \notin DOMAIN calls[c].outcome.value.content

\* a call whose text has a sentence without a date and a sentence whose year
\* the parser turns down has ended with the error Result
C17_Witness ==
    \E c \in Calls :
        /\ ModeDone(c) /\ calls[c].mode = "timeline"
        /\ calls[c].content.text =
               Sentences(<<"Nothing here carries any date", "The relic dates from 1492">>)
        /\ HasErrorFlag(calls[c].outcome.value)

\* C18: in every PuzzleBased result built from validated content, segment i
\* (counted from 0) has unlocked = true if and only if i = 0, and every segment
\* has revealed = false.
C18_OnlyFirstSegmentUnlocked ==
    \A c \in Calls :
        (ModeDone(c) /\ calls[c].mode = "puzzle_based"
         /\ validate_content("puzzle_based", calls[c].content))
        => LET segments == calls[c].outcome.value.content.segments
           IN  \A k \in DOMAIN segments :
                   /\ segments[k].unlocked = (k - 1 = 0)
                   /\ segments[k].revealed = FALSE

\* a result of three segments, of which one is a multiple choice
C18_Witness ==
    \E c \in Calls :
        /\ ModeDone(c) /\ calls[c].mode = "puzzle_based"
        /\ validate_content("puzzle_based", calls[c].content)
        /\ ~HasErrorFlag(calls[c].outcome.value)
        /\ Len(calls[c].outcome.value.content.segments) = 3
        /\ \E k \in 1..3 :
               calls[c].outcome.value.content.segments[k].challenge.type = "multiple_choice"

\* C19: every abbreviation of the list of technical terms that occurs in the
\* content as a whole word is the label of a node of the KnowledgeGraph result,
\* unless the limit of 20 nodes removed it (a result with fewer nodes than the
\* limit lost none to it).
C19_AbbreviationsAreNodes ==
    \A c \in Calls :
        (ModeDone(c) /\ calls[c].mode = "knowledge_graph"
         /\ ~HasErrorFlag(calls[c].outcome.value)
         /\ Len(calls[c].outcome.value.content.graph_data.nodes) < EntityLimit)
        => LET nodes == calls[c].outcome.value.content.graph_data.nodes
               found == Firsts(FindAll(Re_technical_terms, calls[c].content.text))
           IN  \A k \in DOMAIN found : \E n \in DOMAIN nodes : nodes[n].label = found[k]

\* a keyword of the family stands in the sentence as a word (or words) of its own
KeywordHit(sentence, keywords) ==
    \E k \in DOMAIN keywords : WordOccurrences(Lower(sentence), keywords[k]) # {}

\* the bucket of the highest-priority family with a keyword in the sentence,
\* the structural fallback when no family has one
PriorityBucket(sentence) ==
    IF KeywordHit(sentence, warning_indicators) THEN "warnings"
    ELSE IF KeywordHit(sentence, example_indicators) THEN "examples"
    ELSE IF KeywordHit(sentence, assumption_indicators) THEN "assumptions"
    ELSE IF KeywordHit(sentence, fact_indicators) THEN "facts"
    ELSE classify_by_structure(sentence)

\* C20: every sentence of a ColorCoded result is in the bucket of the
\* highest-priority family (warnings, examples, assumptions, facts) one of
\* whose keywords occurs in the sentence, and in the bucket of the structural
\* fallback only when no family has a keyword in it; a sentence whose only
\* keyword is the assumption keyword "likely" is in assumptions.
C20_StrictKeywordPriority ==
    \A c \in Calls :
        (ModeDone(c) /\ calls[c].mode = "color_coded"
         /\ ~HasErrorFlag(calls[c].outcome.value))
        => LET sections == calls[c].outcome.value.content.sections
               sentences == extract_sentences(calls[c].content.text)
           IN  \A k \in DOMAIN sentences :
                   CountIn(sections[PriorityBucket(sentences[k])], sentences[k]) > 0

(***************************************************************************)
(* Questions in ColorCoded content                                         *)
(***************************************************************************)
MaxQuestions == 2

\* sentences without any keyword of the four families, each ended by a
\* question mark or by a full stop
QuestionSentences ==
    {"Is the sky blue", "The sky is blue", "Who wrote the book", "Cats sleep all day"}

QuestionEnds == {"?", "."}

RECURSIVE Terminated(_, _)
\* the sentences of seq, each followed by its own terminator
Terminated(seq, i) ==
    IF i > Len(seq) THEN ""
    ELSE seq[i].text \o seq[i].end \o (IF i < Len(seq) THEN " " ELSE "")
         \o Terminated(seq, i + 1)

QuestionContents ==
    {Terminated(seq, 1) :
        seq \in SeqsUpTo([text : QuestionSentences, end : QuestionEnds], MaxQuestions)}

\* ColorCoded on every text of up to MaxQuestions sentences of QuestionSentences
NextQuestions ==
    \/ \E content \in QuestionContents :
          ModeStart(1, "color_coded", Text(content), NoPrefs)
    \/ ModeValidate(1)
    \/ ModeExtract(1)
    \/ ModeFinish(1)
    \/ Return(1)

SpecQuestions == Init /\ [][NextQuestions]_vars

\* the sentences of the content that a question mark terminates: the text
\* between two runs of terminators, the second of which starts with "?"
TerminatedByQuestion(content) ==
    {Strip(SubSeq(content, a, b)) :
        <<a, b>> \in {p \in (1..Len(content)) \X (1..Len(content)) :
                        /\ p[1] <= p[2]
                        /\ p[2] < Len(content)
                        /\ CharAt(content, p[2] + 1) = "?"
                        /\ \A j \in p[1]..p[2] : ~IsTerminator(CharAt(content, j))
                        /\ (p[1] = 1 \/ IsTerminator(CharAt(content, p[1] - 1)))}}
    \ {""}

\* no indicator of the four families occurs in the sentence
NoKeywordHit(sentence) ==
    /\ ~AnyIn(Lower(sentence), warning_indicators)
    /\ ~AnyIn(Lower(sentence), example_indicators)
    /\ ~AnyIn(Lower(sentence), assumption_indicators)
    /\ ~AnyIn(Lower(sentence), fact_indicators)

\* C21: in a ColorCoded result, every sentence of the content that ends with
\* a question mark and holds no keyword of the four families is in the
\* assumptions bucket.
C21_QuestionsAreAssumptions ==
    \A c \in Calls :
        (ModeDone(c) /\ calls[c].mode = "color_coded"
         /\ ~HasErrorFlag(calls[c].outcome.value))
        => \A sentence \in TerminatedByQuestion(calls[c].content.text) :
               NoKeywordHit(sentence)
               => CountIn(calls[c].outcome.value.content.sections.assumptions,
                          sentence) > 0

\* C22: no two events of a Timeline result have the same source sentence
\* (description): each sentence of the content contributes at most one event.
C22_OneEventPerSentence ==
    \A c \in Calls :
        (ModeDone(c) /\ calls[c].mode = "timeline" /\ ~HasErrorFlag(calls[c].outcome.value))
        => LET events == calls[c].outcome.value.content.events
           IN  \A i, j \in DOMAIN events :
                   i < j => events[i].description # events[j].description

(***************************************************************************)
(* Timeline: families of different precisions, eras and chains of          *)
(* duplicates                                                              *)
(***************************************************************************)
\* a year, an earlier part of a decade, an era, and three sentences of which
\* the second resembles the first by its title and the third has the first's
\* year and more important words
CascadeSentences ==
    {"Rain fell in 2000",
     "Snow came in early 1990s",
     "Trade grew in medieval times",
     "Major launch happened in 1990",
     "Launch happened quietly in 2005",
     "The first important revolution began in 1990"}

CascadeContents == {Sentences(seq) : seq \in SeqsUpTo(CascadeSentences, MaxEvents)}

\* Timeline on every text of up to MaxEvents sentences of CascadeSentences
NextCascade ==
    \/ \E content \in CascadeContents : ModeStart(1, "timeline", Text(content), NoPrefs)
    \/ ModeValidate(1)
    \/ ModeExtract(1)
    \/ ModeFinish(1)
    \/ Return(1)

SpecCascade == Init /\ [][NextCascade]_vars

\* C23: in a Timeline result, of two events with different precisions the one
\* with the smaller period (the earlier date) never comes after the one with
\* the larger period.
C23_ChronologicalAcrossPrecisions ==
    \A c \in Calls :
        (ModeDone(c) /\ calls[c].mode = "timeline" /\ ~HasErrorFlag(calls[c].outcome.value))
        => LET events == calls[c].outcome.value.content.events
           IN  \A i, j \in DOMAIN events :
                   (i < j /\ events[i].precision # events[j].precision)
                   => events[i].period <= events[j].period

\* one of the two tests of remove_duplicate_events holds of the two events
Duplicates(event, existing) ==
    \/ events_similar(event, existing)
    \/ PeriodsClose(event.date_parsed.period, existing.date_parsed.period)

\* C24: every event that remove_duplicate_events discards is a duplicate
\* (title overlap above 60% or periods closer than 0.1) of an event of the
\* final list whose importance is at least its own.
C24_DiscardedHasRetainedDuplicate ==
    \A c \in Calls :
        (ModeDone(c) /\ calls[c].mode = "timeline" /\ ~HasErrorFlag(calls[c].outcome.value))
        => LET found == NumberedEvents(AllEvents(extract_sentences(calls[c].content.text),
                                                 1, calls[c].year))
               events == calls[c].outcome.value.content.events
           IN  \A k \in DOMAIN found :
                   (found[k].id \notin Ids(events))
                   => \E j \in DOMAIN events :
                          /\ Duplicates(found[k], events[j])
                          /\ events[j].importance >= found[k].importance

\* period_map of parse_historical_period: the year an era stands for
period_map(period_name) ==
    CASE period_name = "ancient" -> 500
      [] period_name = "medieval" -> 1000
      [] period_name = "modern" -> 1800
      [] period_name = "contemporary" -> 1950
      [] period_name = "prehistoric" -> 0 - 2000
      [] OTHER -> 1000

\* the matches of one family of date_patterns in the sentence
FamilyMatches(pat, sentence) ==
    FindAll(LAMBDA t, j : MatchDatePattern(pat, t, j), sentence)

\* the sentence holds an era phrase and no expression of another family
OnlyHistorical(sentence) ==
    /\ Len(Strip(sentence)) >= 10
    /\ \A k \in DOMAIN date_patterns :
           (FamilyMatches(date_patterns[k], sentence) # <<>>)
               <=> (date_patterns[k] = "historical")

\* C28: a sentence of at least 10 characters whose only temporal expression is
\* an era phrase (ancient, medieval, modern, contemporary or prehistoric
\* followed by time, times, era or period) gives the Timeline result an event
\* with precision "era" and the year period_map gives the era.
C28_EraSentencesGiveEvents ==
    \A c \in Calls :
        (/\ ModeDone(c) /\ calls[c].mode = "timeline"
         /\ validate_content("timeline", calls[c].content))
        => \A sentence \in Range(extract_sentences(calls[c].content.text)) :
               OnlyHistorical(sentence)
               => /\ calls[c].outcome.kind = "return"
                  /\ ~HasErrorFlag(calls[c].outcome.value)
                  /\ \E e \in Range(calls[c].outcome.value.content.events) :
                         /\ e.description = sentence
                         /\ e.precision = "era"
                         /\ e.date_parsed.year =
                                period_map(Lower(FamilyMatches("historical", sentence)[1][1]))

\* the entities that stand to the phrase in one of the three relations
ExactMatches(entities, name_lower) ==
    {k \in DOMAIN entities : Lower(entities[k].name) = name_lower}

ContainmentMatches(entities, name_lower) ==
    {k \in DOMAIN entities :
        \/ Contains(Lower(entities[k].name), name_lower)
        \/ Contains(name_lower, Lower(entities[k].name))}

TokenMatches(entities, name_lower) ==
    {k \in DOMAIN entities : words_overlap(name_lower, Lower(entities[k].name))}

\* the three criteria in strict order over the whole list: the first entity
\* equal to the phrase, else the first related to it by containment, else the
\* first sharing a word with it, else None
StrictMatch(entities, name) ==
    Local(Strip(Lower(name)),
          LAMBDA name_lower :
              IF ExactMatches(entities, name_lower) # {}
              THEN entities[Least(ExactMatches(entities, name_lower))]
              ELSE IF ContainmentMatches(entities, name_lower) # {}
              THEN entities[Least(ContainmentMatches(entities, name_lower))]
              ELSE IF TokenMatches(entities, name_lower) # {}
              THEN entities[Least(TokenMatches(entities, name_lower))]
              ELSE NoneMap)

\* the matches of the relationship pattern rel_id (counted from 0) in the content
RelationMatches(rel_id, content) ==
    FindAll(LAMBDA t, j :
                Re_relationship(t, j, relationship_patterns[rel_id + 1].verbs,
                                relationship_patterns[rel_id + 1].type = "is_a"),
            content)

\* the two sides of the match resolve, in strict order, to these two entities
ResolvesTo(entities, match, from, to) ==
    /\ StrictMatch(entities, Strip(match[1])) # NoneMap
    /\ StrictMatch(entities, Strip(match[2])) # NoneMap
    /\ StrictMatch(entities, Strip(match[1])).id = from
    /\ StrictMatch(entities, Strip(match[2])).id = to

\* C25: the two ends of every relationship of a KnowledgeGraph result are the
\* entities its phrases resolve to under the three criteria in strict order
\* (equal name, else containment, else a shared word only when no entity
\* matches by containment), None giving no relationship.
C25_StrictResolutionOrder ==
    \A c \in Calls :
        (ModeDone(c) /\ calls[c].mode = "knowledge_graph"
         /\ ~HasErrorFlag(calls[c].outcome.value))
        => LET result == calls[c].outcome.value.content
           IN  \A k \in DOMAIN result.relationships :
                   \E rel_id \in 0..(Len(relationship_patterns) - 1) :
                       /\ relationship_patterns[rel_id + 1].type =
                              result.relationships[k].relationship
                       /\ \E match \in Range(RelationMatches(rel_id, calls[c].content.text)) :
                              ResolvesTo(result.entities, match,
                                         result.relationships[k].from,
                                         result.relationships[k].to)

\* the non-stopword keywords of a concept: the words of three or more letters
\* of its title and content that are not in the stoplist
AllKeywords(concept) ==
    {word \in Range(Firsts(FindAll(Re_letters3,
                                   Lower(concept.title \o " " \o concept.content)))) :
        word \notin common_words}

\* C26: in a CollapsibleConcepts result, of any two different top-level
\* concepts each lists the other's id in related_concepts exactly when their
\* title and content texts share at least one non-stopword keyword.
C26_RelatedIffSharedKeyword ==
    \A c \in Calls :
        (ModeDone(c) /\ calls[c].mode = "collapsible_concepts"
         /\ ~HasErrorFlag(calls[c].outcome.value))
        => LET concepts == calls[c].outcome.value.content.concepts
           IN  \A i, j \in DOMAIN concepts :
                   (i # j)
                   => ((CountIn(concepts[i].related_concepts, concepts[j].id) > 0)
                       <=> (AllKeywords(concepts[i]) \cap AllKeywords(concepts[j]) # {}))

\* important_terms of create_multiple_choice_challenge: the words of more than
\* six characters or with a capital first letter, without their punctuation
ImportantTerms(segment) ==
    Local(SelectSeq(Words(segment),
                    LAMBDA word : Len(word) > 6 \/ IsUpper(CharAt(word, 1))),
          LAMBDA words : [k \in DOMAIN words |-> StripPunctuation(words[k])])

\* the challenge's correct answer is one of its options and a term the
\* segment offers (any option of the fallback question, which has no term)
AnswerIsChosenTerm(challenge, segment) ==
    /\ challenge.correct_answer \in 0..(Len(challenge.options) - 1)
    /\ (ImportantTerms(segment) # <<>>)
       => challenge.options[challenge.correct_answer + 1]
              \in Range(Slice(ImportantTerms(segment), 0, 3))

\* the options beside the correct one do not occur in the segment
DistractorsAbsent(challenge, segment) ==
    \A k \in DOMAIN challenge.options :
        (k # challenge.correct_answer + 1)
        => ~Contains(Lower(segment), Lower(challenge.options[k]))

\* C27: every multiple_choice challenge of a PuzzleBased result, whatever the
\* random choices, has a correct_answer that is an index of options, the option
\* at that index is the term chosen as the answer, there are at most 4 options
\* and no distractor among them occurs, in any case, in the segment's text.
C27_MultipleChoiceWellFormed ==
    \A c \in Calls :
        (ModeDone(c) /\ calls[c].mode = "puzzle_based"
         /\ validate_content("puzzle_based", calls[c].content))
        => LET segments == calls[c].outcome.value.content.segments
               texts == segment_content(calls[c].content.text)
           IN  \A k \in DOMAIN segments :
                   (segments[k].challenge.type = "multiple_choice")
                   => /\ Len(segments[k].challenge.options) <= 4
                      /\ AnswerIsChosenTerm(segments[k].challenge, texts[k])
                      /\ DistractorsAbsent(segments[k].challenge, texts[k])

\* a multiple choice of four options on the text that names two distractors
C27_Witness ==
    \E c \in Calls :
        /\ ModeDone(c) /\ calls[c].mode = "puzzle_based"
        /\ calls[c].content.text = DistractorText
        /\ Contains(Lower(DistractorText), "quantum computing")
        /\ Len(calls[c].outcome.value.content.segments) = 1
        /\ calls[c].outcome.value.content.segments[1].challenge.type = "multiple_choice"
        /\ Len(calls[c].outcome.value.content.segments[1].challenge.options) = 4
        /\ calls[c].outcome.value.content.segments[1].challenge.options[
               calls[c].outcome.value.content.segments[1].challenge.correct_answer + 1]
               \in {"Ada", "Lovelace", "foresaw"}

\* C29: in every PuzzleBased result built from validated content,
\* total_segments is the number of segments and
\* completion_stats.unlocked_count is the number of segments whose unlocked
\* flag is true, also when no sentence of the content is longer than 20
\* characters.
C29_SummaryFieldsAgree ==
    \A c \in Calls :
        (ModeDone(c) /\ calls[c].mode = "puzzle_based"
         /\ validate_content("puzzle_based", calls[c].content))
        => LET result == calls[c].outcome.value.content
           IN  /\ result.total_segments = Len(result.segments)
               /\ result.completion_stats.unlocked_count =
                      Cardinality({k \in DOMAIN result.segments : result.segments[k].unlocked})

RECURSIVE AllConceptIds(_, _)
\* the ids of the concepts from the k-th on, each followed by its children's
AllConceptIds(concepts, k) ==
    IF k > Len(concepts) THEN <<>>
    ELSE <<concepts[k].id>>
         \o [j \in DOMAIN concepts[k].children |-> concepts[k].children[j].id]
         \o AllConceptIds(concepts, k + 1)

\* C30: the ids of the concepts of one CollapsibleConcepts result, top-level
\* concepts and sub-concepts together, are pairwise distinct, also when two
\* paragraphs give the same title.
C30_ConceptIdsDistinct ==
    \A c \in Calls :
        (ModeDone(c) /\ calls[c].mode = "collapsible_concepts"
         /\ ~HasErrorFlag(calls[c].outcome.value))
        => LET ids == AllConceptIds(calls[c].outcome.value.content.concepts, 1)
           IN  \A i, j \in DOMAIN ids : (i # j) => (ids[i] # ids[j])

=============================================================================
